---- MODULE Spec2Model ----
(***************************************************************************)
(* Model of MindGym's deterministic core: the seeded RNG                   *)
(* (services/geminiService.ts, createSeededRNG), the Sudoku generator      *)
(* (SudokuGame, generateBoard / shuffle) and the crossword layout engine   *)
(* (services/geminiService.ts, canPlaceWord / placeWord /                  *)
(* generateGridLayout).                                                    *)
(*                                                                         *)
(* JavaScript numbers are modelled as pairs <<hi, lo>> standing for        *)
(* hi * 65536 + lo with lo in 0..65535.  An int32 has hi in                *)
(* -32768..32767, a uint32 has hi in 0..65535, and a number that was       *)
(* never wrapped has an unconstrained hi.  The float u / 2^32 returned by  *)
(* a stream is modelled by its numerator u.                                *)
(***************************************************************************)
EXTENDS Integers, Sequences, FiniteSets, TLC

VARIABLES
    streams,        \* RNG streams: per stream the closure's seed and the outputs returned
    difficulty,     \* SudokuGame prop
    seedStr,        \* seed string generateBoard derives from mode (daily date / random)
    solution,       \* SudokuGame state: solution grid
    board,          \* SudokuGame state: puzzle grid
    runs,           \* number of generateBoard runs with (seedStr, difficulty)
    firstRun,       \* solution and puzzle of the first of those runs
    wordsData,      \* the word list given to generateGridLayout
    size,           \* the grid size given to generateGridLayout
    grid,           \* generateGridLayout's grid when it returned
    placedWords,    \* generateGridLayout's return value
    layoutCalls,    \* number of generateGridLayout calls made
    finalClues,     \* generateCrosswordPuzzle's return value
    shInput,        \* shuffle: the array as it was handed in
    shArray,        \* shuffle: the array, swapped in place
    shI,            \* shuffle: the loop variable i
    shJ,            \* shuffle: the j drawn in the last iteration
    shRng,          \* shuffle: the rng handed in
    baseGrid,       \* generateBoard: the local baseGrid
    rngSeed,        \* generateBoard: the seed held by its rng
    genPc,          \* generateBoard: the step it is at
    genPrev,        \* generateBoard: step, baseGrid and seed before the last step
    remainingWords, \* generateGridLayout: remaining = sortedWords.slice(1)
    passNo,         \* generateGridLayout: the loop variable pass
    wordIdx,        \* generateGridLayout: the loop variable i, from 1
    tryLog,         \* generateGridLayout: per loop iteration, the word and what it met
    passOne,        \* generateGridLayout: grid and placedWords when pass 0 ended
    errors,         \* SudokuGame state: errors
    selectedCell,   \* SudokuGame state: selectedCell, <<>> for null
    mode,           \* SudokuGame state: mode
    storage,        \* localStorage: per storage key the saved game, <<>> for none
    timers,         \* SudokuGame: the cells of the pending error timeouts, oldest first
    given,          \* the puzzle generateBoard made for the game on the board
    inputs,         \* number of handleNumberInput calls
    completes,      \* number of onComplete calls
    toggles,        \* number of toggleMode calls
    cwGrid,         \* CrosswordGame state: grid
    cwUserGrid,     \* CrosswordGame state: userGrid
    cwSelectedCell, \* CrosswordGame state: selectedCell, <<>> for null
    cwDirection,    \* CrosswordGame state: direction
    cwClues,        \* CrosswordGame state: clues
    cwMode,         \* CrosswordGame state: mode
    isLoadingPuzzle,\* CrosswordGame state: isLoadingPuzzle
    cwStorage,      \* localStorage: per crossword storage key the saved game, <<>> for none
    cwKeys,         \* number of keys handleKeyDown has handled
    cwToggles,      \* number of toggleMode calls of the CrosswordGame
    apiModel,       \* callGemini: config.model of the current invocation
    apiRetries,     \* callGemini: retries of the current invocation
    apiDelay,       \* callGemini: delay of the current invocation
    apiPc,          \* callGemini: where the call chain is
    apiRequests,    \* callGemini: the generateContent requests made, with their outcome
    apiWaits,       \* callGemini: the delays waited, in order
    apiResult       \* callGemini: what the outermost call returned or threw

rngVars == <<streams>>
sudokuVars == <<difficulty, seedStr, solution, board, runs, firstRun>>
layoutVars == <<wordsData, size, grid, placedWords, layoutCalls, finalClues>>
shuffleVars == <<shInput, shArray, shI, shJ, shRng>>
genVars == <<baseGrid, rngSeed, genPc, genPrev>>
passVars == <<remainingWords, passNo, wordIdx, tryLog, passOne>>
gameVars == <<errors, selectedCell, mode, storage, timers, given, inputs, completes, toggles>>
cwVars == <<cwGrid, cwUserGrid, cwSelectedCell, cwDirection, cwClues, cwMode, isLoadingPuzzle,
           cwStorage, cwKeys, cwToggles>>
apiVars == <<apiModel, apiRetries, apiDelay, apiPc, apiRequests, apiWaits, apiResult>>
moreVars == <<shuffleVars, genVars, passVars, gameVars, cwVars, apiVars>>
notShuffleVars == <<genVars, passVars, gameVars, cwVars, apiVars>>
notGenVars == <<shuffleVars, passVars, gameVars, cwVars, apiVars>>
notPassVars == <<shuffleVars, genVars, gameVars, cwVars, apiVars>>
notGameVars == <<shuffleVars, genVars, passVars, cwVars, apiVars>>
notCwVars == <<shuffleVars, genVars, passVars, gameVars, apiVars>>
notApiVars == <<shuffleVars, genVars, passVars, gameVars, cwVars>>
vars == <<streams, difficulty, seedStr, solution, board, runs, firstRun,
          wordsData, size, grid, placedWords, layoutCalls, finalClues, moreVars>>

\* no shuffle under way
InitShuffleIdle ==
    /\ shInput = <<>>
    /\ shArray = <<>>
    /\ shI = 0
    /\ shJ = 0
    /\ shRng = <<>>

\* generateBoard not running
InitGenIdle ==
    /\ baseGrid = <<>>
    /\ rngSeed = <<0, 0>>
    /\ genPc = 0
    /\ genPrev = <<>>

\* generateGridLayout not running step by step
InitPassIdle ==
    /\ remainingWords = <<>>
    /\ passNo = 0
    /\ wordIdx = 0
    /\ tryLog = <<>>
    /\ passOne = <<>>

\* SudokuGame not played
InitGameIdle ==
    /\ errors = <<>>
    /\ selectedCell = <<>>
    /\ mode = "daily"
    /\ storage = <<>>
    /\ timers = <<>>
    /\ given = <<>>
    /\ inputs = 0
    /\ completes = 0
    /\ toggles = 0

\* CrosswordGame not mounted
InitCwIdle ==
    /\ cwGrid = <<>>
    /\ cwUserGrid = <<>>
    /\ cwSelectedCell = <<>>
    /\ cwDirection = "across"
    /\ cwClues = <<>>
    /\ cwMode = "daily"
    /\ isLoadingPuzzle = TRUE
    /\ cwStorage = <<>>
    /\ cwKeys = 0
    /\ cwToggles = 0

\* callGemini not called
InitApiIdle ==
    /\ apiModel = ""
    /\ apiRetries = 0
    /\ apiDelay = 0
    /\ apiPc = "idle"
    /\ apiRequests = <<>>
    /\ apiWaits = <<>>
    /\ apiResult = <<>>

InitMoreIdle ==
    InitShuffleIdle /\ InitGenIdle /\ InitPassIdle /\ InitGameIdle /\ InitCwIdle /\ InitApiIdle
InitNotShuffleIdle == InitGenIdle /\ InitPassIdle /\ InitGameIdle /\ InitCwIdle /\ InitApiIdle
InitNotGenIdle == InitShuffleIdle /\ InitPassIdle /\ InitGameIdle /\ InitCwIdle /\ InitApiIdle
InitNotPassIdle == InitShuffleIdle /\ InitGenIdle /\ InitGameIdle /\ InitCwIdle /\ InitApiIdle
InitNotGameIdle == InitShuffleIdle /\ InitGenIdle /\ InitPassIdle /\ InitCwIdle /\ InitApiIdle
InitNotCwIdle == InitShuffleIdle /\ InitGenIdle /\ InitPassIdle /\ InitGameIdle /\ InitApiIdle
InitNotApiIdle == InitShuffleIdle /\ InitGenIdle /\ InitPassIdle /\ InitGameIdle /\ InitCwIdle

-----------------------------------------------------------------------------
(* Bounds of the model *)

MaxSeedLen == 2     \* longest seed string
MaxCalls == 3       \* calls made on one RNG stream

\* Characters a seed is built from: the characters of getDailyISO() and of
\* Math.random().toString(), by char code ("-" 45, "." 46, "0" 48, "1" 49).
SeedChars == {45, 46, 48, 49}

RECURSIVE SeqsUpTo(_, _)
SeqsUpTo(S, n) ==
    IF n = 0 THEN {<<>>}
    ELSE LET shorter == SeqsUpTo(S, n - 1)
         IN  shorter \cup {Append(s, x) : s \in shorter, x \in S}

Seeds == SeqsUpTo(SeedChars, MaxSeedLen)

-----------------------------------------------------------------------------
(* Sequencing.  Then(x, F) is F applied to the value of x, computed once   *)
(* before F starts (JavaScript evaluates an argument or an initializer     *)
(* once).  Iterate is a loop: the body Step applied for i = lo, lo + 1,    *)
(* ..., hi in order; the range is halved so that the evaluation depth      *)
(* stays logarithmic.                                                      *)

Then(x, F(_)) == CHOOSE r \in {F(v) : v \in {x}} : TRUE

Then2(x, y, F(_, _)) == CHOOSE r \in {F(v, w) : v \in {x}, w \in {y}} : TRUE

RECURSIVE Iterate(_, _, _, _)
Iterate(Step(_, _), st, lo, hi) ==
    IF lo > hi THEN st
    ELSE IF lo = hi THEN Then(st, LAMBDA s : Step(s, lo))
    ELSE Then(Iterate(Step, st, lo, (lo + hi) \div 2),
              LAMBDA s : Iterate(Step, s, ((lo + hi) \div 2) + 1, hi))

-----------------------------------------------------------------------------
(* 32-bit integer arithmetic of JavaScript *)

RECURSIVE BitXor(_, _, _)
BitXor(a, b, n) ==
    IF n = 0 THEN 0
    ELSE (((a % 2) + (b % 2)) % 2) + 2 * BitXor(a \div 2, b \div 2, n - 1)

RECURSIVE BitOr(_, _, _)
BitOr(a, b, n) ==
    IF n = 0 THEN 0
    ELSE (IF (a % 2) + (b % 2) > 0 THEN 1 ELSE 0) + 2 * BitOr(a \div 2, b \div 2, n - 1)

XorNibble == [a \in 0..15 |-> [b \in 0..15 |-> BitXor(a, b, 4)]]
OrNibble == [a \in 0..15 |-> [b \in 0..15 |-> BitOr(a, b, 4)]]

Nibbles16(T, a, b) ==
      T[a % 16][b % 16]
    + 16 * T[(a \div 16) % 16][(b \div 16) % 16]
    + 256 * T[(a \div 256) % 16][(b \div 256) % 16]
    + 4096 * T[a \div 4096][b \div 4096]

Xor16(a, b) == Nibbles16(XorNibble, a, b)
Or16(a, b) == Nibbles16(OrNibble, a, b)

Pow2(n) == CASE n = 0 -> 1 [] n = 1 -> 2 [] n = 2 -> 4 [] n = 3 -> 8
             [] n = 4 -> 16 [] n = 5 -> 32 [] n = 6 -> 64 [] n = 7 -> 128
             [] n = 8 -> 256 [] n = 9 -> 512 [] n = 10 -> 1024 [] n = 11 -> 2048
             [] n = 12 -> 4096 [] n = 13 -> 8192 [] n = 14 -> 16384
             [] n = 15 -> 32768 [] n = 16 -> 65536

\* ToUint32 / ToInt32 of ECMAScript: the value modulo 2^32, read unsigned / signed
ToUint32(x) == Then(x, LAMBDA v : <<v[1] % 65536, v[2]>>)

ToInt32(x) ==
    Then(ToUint32(x), LAMBDA u : IF u[1] >= 32768 THEN <<u[1] - 65536, u[2]>> ELSE u)

\* a small non-negative integer as a number
Num(n) == <<n \div 65536, n % 65536>>

\* x + y on numbers (no wrap)
NumAdd(x, y) ==
    Then2(x, y, LAMBDA a, b :
        <<a[1] + b[1] + ((a[2] + b[2]) \div 65536), (a[2] + b[2]) % 65536>>)

\* x ^ y, x | y: operands by ToInt32, result an int32
Xor32(x, y) ==
    Then2(ToUint32(x), ToUint32(y), LAMBDA a, b :
        ToInt32(<<Xor16(a[1], b[1]), Xor16(a[2], b[2])>>))

Or32(x, y) ==
    Then2(ToUint32(x), ToUint32(y), LAMBDA a, b :
        ToInt32(<<Or16(a[1], b[1]), Or16(a[2], b[2])>>))

\* x >>> n for 0 <= n <= 15: operand by ToUint32, result a uint32
Shr32(x, n) ==
    Then(ToUint32(x), LAMBDA u :
        <<u[1] \div Pow2(n),
          ((u[1] % Pow2(n)) * Pow2(16 - n)) + (u[2] \div Pow2(n))>>)

\* (a * b) mod 65536 for a, b in 0..65535, without leaving 31 bits
MulMod16(a, b) == ((a * (b % 256)) + (((a * (b \div 256)) % 256) * 256)) % 65536

\* the low 32 bits of the product of two uint32, in 16-bit halves
MulLow(a, b) ==
    LET p0 == a[2] * (b[2] % 256)
        p1 == a[2] * (b[2] \div 256)
        low == p0 + ((p1 % 256) * 256)
        hi == (low \div 65536) + (p1 \div 256) + MulMod16(a[1], b[2]) + MulMod16(a[2], b[1])
    IN  <<hi % 65536, low % 65536>>

\* Math.imul(x, y): the low 32 bits of the product, read signed
Imul(x, y) == Then2(ToUint32(x), ToUint32(y), LAMBDA a, b : ToInt32(MulLow(a, b)))

-----------------------------------------------------------------------------
(* createSeededRNG *)

FNVOffset == <<33052, 40389>>      \* 2166136261 >>> 0
FNVPrime == <<256, 403>>           \* 16777619
Weyl == <<27947, 31221>>           \* 0x6D2B79F5

\* one iteration of the hash loop: h = Math.imul(h ^ seedStr.charCodeAt(i), 16777619)
HashStep(h, c) == Imul(Xor32(h, Num(c)), FNVPrime)

\* the closure's initial seed: the hash of the seed string s (a sequence of char codes)
HashSeed(s) == Iterate(LAMBDA h, i : HashStep(h, s[i]), FNVOffset, 1, Len(s))

\* seed += 0x6D2B79F5
NextSeed(seed) == NumAdd(seed, Weyl)

\* t = Math.imul(t ^ t >>> 15, t | 1)
Mix1(t) == Imul(Xor32(t, Shr32(t, 15)), Or32(t, Num(1)))

\* t ^= t + Math.imul(t ^ t >>> 7, t | 61)
Mix2(t) == Xor32(t, NumAdd(t, Imul(Xor32(t, Shr32(t, 7)), Or32(t, Num(61)))))

\* t ^ t >>> 14
Mix3(t) == Xor32(t, Shr32(t, 14))

\* the closure body after the seed update, up to the last xor: t0 is the new seed
MixSigned(t0) ==
    Then(t0, LAMBDA t : Then(Mix1(t), LAMBDA t1 : Then(Mix2(t1), Mix3)))

\* the result left as the signed 32-bit value of the last xor, without >>> 0
UnsignedDropped(t) == t

\* (...) >>> 0
Unsigned(t) == Shr32(t, 0)

\* one call of the stream: the seed it leaves and the numerator of the float it returns
RngCall(seed) ==
    Then(NextSeed(seed), LAMBDA t : [seed |-> t, value |-> Unsigned(MixSigned(t))])

\* rng() > 0.5
GreaterHalf(u) == u[1] > 32768 \/ (u[1] = 32768 /\ u[2] > 0)

\* Math.floor(rng() * m) for a small positive integer m
FloorMul(u, m) == ((u[1] * m) + ((u[2] * m) \div 65536)) \div 65536

-----------------------------------------------------------------------------
(* SudokuGame: shuffle and generateBoard *)

\* Arrays are functions on 0..n-1.  Eager(f) is f, with its values computed.
Eager(f) == f @@ <<>>
EagerGrid(g) == Eager([r \in DOMAIN g |-> Eager(g[r])])

Null == 0           \* an empty puzzle cell (null)

\* [array[i], array[j]] = [array[j], array[i]]
Swap(array, i, j) ==
    Eager([x \in DOMAIN array |->
              IF x = i THEN array[j] ELSE IF x = j THEN array[i] ELSE array[x]])

\* a loop body that assigns array[i] = array[j] and never writes array[j]
ShuffleBodyOverwrite(array, i, value) ==
    Then(FloorMul(value, i + 1), LAMBDA j :
        Eager([x \in DOMAIN array |-> IF x = i THEN array[j] ELSE array[x]]))

\* the body of shuffle's loop at i, for the value rng() returned
ShuffleBody(array, i, value) ==
    Then(FloorMul(value, i + 1), LAMBDA j : Swap(array, i, j))

\* one iteration of shuffle's loop; k counts iterations, i = length - k
ShuffleStep(st, k) ==
    Then(RngCall(st.seed), LAMBDA c :
        [n |-> st.n, seed |-> c.seed, array |-> ShuffleBody(st.array, st.n - k, c.value)])

\* shuffle(array, rng): array is a function on 0..n-1; returns the array and the seed left
shuffle(array, n, seed) ==
    Then(Iterate(ShuffleStep, [n |-> n, seed |-> seed, array |-> Eager(array)], 1, n - 1),
         LAMBDA r : [array |-> r.array, seed |-> r.seed])

BaseRows ==
    << <<5, 3, 4, 6, 7, 8, 9, 1, 2>>, <<6, 7, 2, 1, 9, 5, 3, 4, 8>>,
       <<1, 9, 8, 3, 4, 2, 5, 6, 7>>, <<8, 5, 9, 7, 6, 1, 4, 2, 3>>,
       <<4, 2, 6, 8, 5, 3, 7, 9, 1>>, <<7, 1, 3, 9, 2, 4, 8, 5, 6>>,
       <<9, 6, 1, 5, 3, 7, 2, 8, 4>>, <<2, 8, 7, 4, 1, 9, 6, 3, 5>>,
       <<3, 4, 5, 2, 8, 6, 1, 7, 9>> >>

\* the literal as an array of arrays
Literal == EagerGrid([r \in 0..8 |-> [c \in 0..8 |-> BaseRows[r + 1][c + 1]]])

\* the grid declared once outside generateBoard, so that a call starts from the
\* grid the previous call left
BaseGridHoisted == IF solution = <<>> THEN Literal ELSE solution

\* the grid generateBoard starts from: a fresh copy of the literal in every call
BaseGrid == Literal

Transpose(g) == EagerGrid([c \in 0..8 |-> [r \in 0..8 |-> g[r][c]]])

\* 1. Transpose?
TransposeStep(st) ==
    Then(RngCall(st.seed), LAMBDA c :
        [g |-> IF GreaterHalf(c.value) THEN Transpose(st.g) ELSE st.g, seed |-> c.seed])

\* the write-back that stores rows[0] into each of the three rows
PlaceRowsRepeated(g, b, rows) ==
    Eager([r \in 0..8 |-> IF r \in b..(b + 2) THEN rows[0] ELSE g[r]])

\* the three rows from b placed back after the shuffle
PlaceRows(g, b, rows) ==
    Eager([r \in 0..8 |-> IF r \in b..(b + 2) THEN rows[r - b] ELSE g[r]])

\* the shuffle of the three rows from b
ShuffleBand(st, b, seed) ==
    Then(shuffle([x \in 0..2 |-> st.g[b + x]], 3, seed), LAMBDA sh :
        [g |-> PlaceRows(st.g, b, sh.array), seed |-> sh.seed])

\* the band loop body that shuffles the rows whatever rng() returned
BandStepUngated(st, k) ==
    Then(RngCall(st.seed), LAMBDA c : ShuffleBand(st, 3 * k, c.seed))

\* 2. / 3. one iteration of the band loop, band number k = b / 3
BandStep(st, k) ==
    Then(RngCall(st.seed), LAMBDA c :
        IF GreaterHalf(c.value)
        THEN ShuffleBand(st, 3 * k, c.seed)
        ELSE [g |-> st.g, seed |-> c.seed])

SwapRowsInBands(st) == Iterate(BandStep, st, 0, 2)

SwapColsInBands(st) ==
    Then(SwapRowsInBands([g |-> Transpose(st.g), seed |-> st.seed]), LAMBDA t :
        [g |-> Transpose(t.g), seed |-> t.seed])

\* 4. Swap Bands
SwapBands(st) ==
    Then(shuffle([k \in 0..2 |-> [x \in 0..2 |-> st.g[(3 * k) + x]]], 3, st.seed),
         LAMBDA sh :
            [g |-> Eager([r \in 0..8 |-> sh.array[r \div 3][r % 3]]), seed |-> sh.seed])

\* 5. Permute Numbers
Relabel(g, permuted) ==
    EagerGrid([r \in 0..8 |-> [c \in 0..8 |-> permuted[g[r][c] - 1]]])

PermuteNumbers(st) ==
    Then(shuffle([x \in 0..8 |-> x + 1], 9, st.seed), LAMBDA sh :
        [g |-> Relabel(st.g, sh.array), seed |-> sh.seed])

\* Create Puzzle Mask
CellsToKeep(d) == IF d = "Easy" THEN 45 ELSE IF d = "Medium" THEN 35 ELSE 24

\* indices.slice(0, cellsToKeep + 1)
KeptIndicesInclusive(indices, cellsToKeep) == {indices[x] : x \in 0..cellsToKeep}

\* new Set(indices.slice(0, cellsToKeep))
KeptIndices(indices, cellsToKeep) == {indices[x] : x \in 0..(cellsToKeep - 1)}

\* the mask reading grid[c][r] for the cell at row r, column c
MaskTransposed(g, keptIndices) ==
    EagerGrid([r \in 0..8 |-> [c \in 0..8 |->
        IF ((r * 9) + c) \in keptIndices THEN g[c][r] ELSE Null]])

Mask(g, keptIndices) ==
    EagerGrid([r \in 0..8 |-> [c \in 0..8 |->
        IF ((r * 9) + c) \in keptIndices THEN g[r][c] ELSE Null]])

\* the mask step with what generateBoard hands to setSolution and setBoard
MaskStep(st, d) ==
    Then(shuffle([x \in 0..80 |-> x], 81, st.seed), LAMBDA sh :
        Then(KeptIndices(sh.array, CellsToKeep(d)), LAMBDA keptIndices :
            [solution |-> st.g, puzzle |-> Mask(st.g, keptIndices)]))

\* the transformations 1 to 5 in order
TransformStep(st, n) ==
    CASE n = 1 -> TransposeStep(st)
      [] n = 2 -> SwapRowsInBands(st)
      [] n = 3 -> SwapColsInBands(st)
      [] n = 4 -> SwapBands(st)
      [] n = 5 -> PermuteNumbers(st)

\* generateBoard for the seed string s and the difficulty d
generateBoard(s, d) ==
    Then(Iterate(TransformStep, [g |-> BaseGrid, seed |-> HashSeed(s)], 1, 5),
         LAMBDA st : MaskStep(st, d))

-----------------------------------------------------------------------------
(* The crossword layout: canPlaceWord, placeWord, generateGridLayout.      *)
(* A word entry is [answer, clue] with the answer a sequence of letters;   *)
(* a placed word adds row, col and direction.  The grid is the map of the  *)
(* cells written so far: a cell never written reads null inside the        *)
(* size x size array and undefined outside a row's bounds.                 *)

Letter(word, i) == word[i + 1]         \* word[i], i from 0

InGrid(sz, r, c) == r \in 0..(sz - 1) /\ c \in 0..(sz - 1)

\* grid[r][c] for a row r of the array
Cell(g, sz, r, c) ==
    IF <<r, c>> \in DOMAIN g THEN g[<<r, c>>]
    ELSE IF InGrid(sz, r, c) THEN "null"
    ELSE "undefined"

\* grid[0].length: the array's length grows when an index past its end is written
Width(g, sz) ==
    LET past == {cell[2] + 1 : cell \in {x \in DOMAIN g : x[1] = 0 /\ x[2] >= sz}}
    IN  IF past = {} THEN sz ELSE CHOOSE m \in past : \A n \in past : n <= m

\* the cell of the i-th letter of a word at (row, col)
CellAt(row, col, direction, i) ==
    IF direction = "across" THEN <<row, col + i>> ELSE <<row + i, col>>

\* the loop body without the test cell !== char
LetterFitsUnchecked(g, sz, word, row, col, direction, i) ==
    LET at == CellAt(row, col, direction, i)
        cell == Cell(g, sz, at[1], at[2])
    IN  cell = "null" =>
             IF direction = "across"
             THEN /\ ~(row > 0 /\ Cell(g, sz, row - 1, col + i) # "null")
                  /\ ~(row < sz - 1 /\ Cell(g, sz, row + 1, col + i) # "null")
             ELSE /\ ~(col > 0 /\ Cell(g, sz, row + i, col - 1) # "null")
                  /\ ~(col < Width(g, sz) - 1 /\ Cell(g, sz, row + i, col + 1) # "null")

\* the loop body without the tests of the perpendicular neighbours
LetterFitsNoNeighbours(g, sz, word, row, col, direction, i) ==
    LET at == CellAt(row, col, direction, i)
        cell == Cell(g, sz, at[1], at[2])
    IN  ~(cell # "null" /\ cell # Letter(word, i))

\* the loop body of canPlaceWord for letter i: TRUE when it does not return false
LetterFits(g, sz, word, row, col, direction, i) ==
    LET at == CellAt(row, col, direction, i)
        cell == Cell(g, sz, at[1], at[2])
    IN  /\ ~(cell # "null" /\ cell # Letter(word, i))
        /\ cell = "null" =>
             IF direction = "across"
             THEN /\ ~(row > 0 /\ Cell(g, sz, row - 1, col + i) # "null")
                  /\ ~(row < sz - 1 /\ Cell(g, sz, row + 1, col + i) # "null")
             ELSE /\ ~(col > 0 /\ Cell(g, sz, row + i, col - 1) # "null")
                  /\ ~(col < Width(g, sz) - 1 /\ Cell(g, sz, row + i, col + 1) # "null")

canPlaceWord(g, sz, word, row, col, direction) ==
    IF direction = "across"
    THEN /\ ~(col + Len(word) > Width(g, sz))
         /\ ~(col > 0 /\ Cell(g, sz, row, col - 1) # "null")
         /\ ~(col + Len(word) < Width(g, sz) /\ Cell(g, sz, row, col + Len(word)) # "null")
         /\ \A i \in 0..(Len(word) - 1) : LetterFits(g, sz, word, row, col, direction, i)
    ELSE /\ ~(row + Len(word) > sz)
         /\ ~(row > 0 /\ Cell(g, sz, row - 1, col) # "null")
         /\ ~(row + Len(word) < sz /\ Cell(g, sz, row + Len(word), col) # "null")
         /\ \A i \in 0..(Len(word) - 1) : LetterFits(g, sz, word, row, col, direction, i)

placeWord(g, word, row, col, direction) ==
    LET written == {CellAt(row, col, direction, i) : i \in 0..(Len(word) - 1)}
        index(cell) == IF direction = "across" THEN cell[2] - col ELSE cell[1] - row
    IN  Eager([cell \in DOMAIN g \cup written |->
                  IF cell \in written THEN Letter(word, index(cell)) ELSE g[cell]])

Placed(wordObj, row, col, direction) ==
    [answer |-> wordObj.answer, clue |-> wordObj.clue,
     row |-> row, col |-> col, direction |-> direction]

\* [...wordsData].sort((a, b) => b.answer.length - a.answer.length): the sort is
\* stable, so the result is the entries of each length in input order, longest first
RECURSIVE SortFrom(_, _)
SortFrom(words, n) ==
    IF n < 0 THEN <<>>
    ELSE SelectSeq(words, LAMBDA w : Len(w.answer) = n) \o SortFrom(words, n - 1)

LongestLength(words) ==
    CHOOSE m \in {Len(words[i].answer) : i \in DOMAIN words} :
        \A i \in DOMAIN words : Len(words[i].answer) <= m

\* an unstable sort: the entries of each length in reverse input order
SortedWordsUnstable(words) ==
    IF words = <<>> THEN <<>>
    ELSE SortFrom([i \in 1..Len(words) |-> words[(Len(words) + 1) - i]], LongestLength(words))

SortedWords(words) == IF words = <<>> THEN <<>> ELSE SortFrom(words, LongestLength(words))

\* an attempt that starts the word two lines away from the common letter
TryIntersectionOffset(st, sz, wordObj, placedWord, j, k) ==
    IF placedWord.direction = "across"
    THEN LET startRow == (placedWord.row - j) + Len(wordObj.answer) + 1
             startCol == placedWord.col + k
         IN  IF /\ startRow >= 0
                /\ startRow + Len(wordObj.answer) <= sz
                /\ canPlaceWord(st.grid, sz, wordObj.answer, startRow, startCol, "down")
             THEN [grid |-> placeWord(st.grid, wordObj.answer, startRow, startCol, "down"),
                   placedWords |-> Append(st.placedWords,
                                          Placed(wordObj, startRow, startCol, "down")),
                   placed |-> TRUE]
             ELSE st
    ELSE LET startRow == placedWord.row + k
             startCol == (placedWord.col - j) + Len(wordObj.answer) + 1
         IN  IF /\ startCol >= 0
                /\ startCol + Len(wordObj.answer) <= sz
                /\ canPlaceWord(st.grid, sz, wordObj.answer, startRow, startCol, "across")
             THEN [grid |-> placeWord(st.grid, wordObj.answer, startRow, startCol, "across"),
                   placedWords |-> Append(st.placedWords,
                                          Placed(wordObj, startRow, startCol, "across")),
                   placed |-> TRUE]
             ELSE st

\* the attempt at one common letter: wordObj's letter j on placedWord's letter k
TryIntersection(st, sz, wordObj, placedWord, j, k) ==
    IF placedWord.direction = "across"
    THEN LET startRow == placedWord.row - j
             startCol == placedWord.col + k
         IN  IF /\ startRow >= 0
                /\ startRow + Len(wordObj.answer) <= sz
                /\ canPlaceWord(st.grid, sz, wordObj.answer, startRow, startCol, "down")
             THEN [grid |-> placeWord(st.grid, wordObj.answer, startRow, startCol, "down"),
                   placedWords |-> Append(st.placedWords,
                                          Placed(wordObj, startRow, startCol, "down")),
                   placed |-> TRUE]
             ELSE st
    ELSE LET startRow == placedWord.row + k
             startCol == placedWord.col - j
         IN  IF /\ startCol >= 0
                /\ startCol + Len(wordObj.answer) <= sz
                /\ canPlaceWord(st.grid, sz, wordObj.answer, startRow, startCol, "across")
             THEN [grid |-> placeWord(st.grid, wordObj.answer, startRow, startCol, "across"),
                   placedWords |-> Append(st.placedWords,
                                          Placed(wordObj, startRow, startCol, "across")),
                   placed |-> TRUE]
             ELSE st

\* for (let k = 0; k < placedWord.answer.length; k++): the loop has no break
KStep(st, sz, wordObj, placedWord, j, k) ==
    IF Letter(placedWord.answer, k) = Letter(wordObj.answer, j)
    THEN TryIntersection(st, sz, wordObj, placedWord, j, k)
    ELSE st

\* for (let j = 0; j < wordObj.answer.length; j++) { if (placed) break; ... }
JStep(st, sz, wordObj, placedWord, j) ==
    IF st.placed THEN st
    ELSE Iterate(LAMBDA s, k : KStep(s, sz, wordObj, placedWord, j, k),
                 st, 0, Len(placedWord.answer) - 1)

\* for (const placedWord of placedWords) { if (placed) break; ... }: p is the index of
\* placedWord; the words pushed during the loop are reached only with placed set
PStep(st, sz, wordObj, p) ==
    IF st.placed THEN st
    ELSE Iterate(LAMBDA s, j : JStep(s, sz, wordObj, st.placedWords[p], j),
                 st, 0, Len(wordObj.answer) - 1)

\* the loop body with a fallback: a word for which no intersection was found is put
\* across at the top left corner when canPlaceWord lets it
WordStepFallback(st, sz, wordObj) ==
    IF \E p \in DOMAIN st.placedWords : st.placedWords[p].answer = wordObj.answer
    THEN st
    ELSE Then(Iterate(LAMBDA s, p : PStep(s, sz, wordObj, p),
                      [grid |-> st.grid, placedWords |-> st.placedWords, placed |-> FALSE],
                      1, Len(st.placedWords)),
              LAMBDA s :
                  IF ~s.placed /\ canPlaceWord(s.grid, sz, wordObj.answer, 0, 0, "across")
                  THEN [grid |-> placeWord(s.grid, wordObj.answer, 0, 0, "across"),
                        placedWords |-> Append(s.placedWords, Placed(wordObj, 0, 0, "across"))]
                  ELSE [grid |-> s.grid, placedWords |-> s.placedWords])

\* the loop body without the test "Already placed"
WordStepNoSkip(st, sz, wordObj) ==
    Then(Iterate(LAMBDA s, p : PStep(s, sz, wordObj, p),
                 [grid |-> st.grid, placedWords |-> st.placedWords, placed |-> FALSE],
                 1, Len(st.placedWords)),
         LAMBDA s : [grid |-> s.grid, placedWords |-> s.placedWords])

\* the body of the loop over remaining for wordObj
WordStep(st, sz, wordObj) ==
    IF \E p \in DOMAIN st.placedWords : st.placedWords[p].answer = wordObj.answer
    THEN st
    ELSE Then(Iterate(LAMBDA s, p : PStep(s, sz, wordObj, p),
                      [grid |-> st.grid, placedWords |-> st.placedWords, placed |-> FALSE],
                      1, Len(st.placedWords)),
              LAMBDA s : [grid |-> s.grid, placedWords |-> s.placedWords])

\* one pass over remaining
PassStep(st, sz, remaining) ==
    Iterate(LAMBDA s, i : WordStep(s, sz, remaining[i]), st, 1, Len(remaining))

\* Place first word in center
PlaceFirst(first, sz) ==
    LET startRow == sz \div 2
        startCol == (sz - Len(first.answer)) \div 2
    IN  [grid |-> placeWord(<<>>, first.answer, startRow, startCol, "across"),
         placedWords |-> <<Placed(first, startRow, startCol, "across")>>]

\* the function without the test sortedWords.length === 0: first.answer throws a
\* TypeError on an empty list and no list is returned
generateGridLayoutUnguarded(words, sz) ==
    Then(SortedWords(words), LAMBDA sortedWords :
        IF Len(sortedWords) = 0 THEN [grid |-> <<>>, placedWords |-> <<"TypeError">>]
        ELSE Iterate(LAMBDA s, pass : PassStep(s, sz, Tail(sortedWords)),
                     PlaceFirst(sortedWords[1], sz), 0, 1))

\* generateGridLayout(wordsData, size): the list it returns, and its grid at that time
generateGridLayout(words, sz) ==
    Then(SortedWords(words), LAMBDA sortedWords :
        IF Len(sortedWords) = 0 THEN [grid |-> <<>>, placedWords |-> <<>>]
        ELSE Iterate(LAMBDA s, pass : PassStep(s, sz, Tail(sortedWords)),
                     PlaceFirst(sortedWords[1], sz), 0, 1))

-----------------------------------------------------------------------------
(* generateCrosswordPuzzle after the response has arrived: the layout of   *)
(* the words and the numbering of the clues.                               *)

gridSize == 12      \* const gridSize = 12

DigitChars == <<"0", "1", "2", "3", "4", "5", "6", "7", "8", "9">>

\* the decimal string of an integer, as template literals format a number
RECURSIVE NumberString(_)
NumberString(n) ==
    IF n < 0 THEN <<"-">> \o NumberString(-n)
    ELSE IF n < 10 THEN <<DigitChars[n + 1]>>
    ELSE NumberString(n \div 10) \o <<DigitChars[(n % 10) + 1]>>

\* `${row}-${col}`
Key(row, col) == NumberString(row) \o <<"-">> \o NumberString(col)

\* String.prototype.toUpperCase on a letter
UpperLetter(ch) ==
    CASE ch = "a" -> "A"
      [] ch = "b" -> "B"
      [] OTHER -> ch

toUpperCase(answer) == [i \in DOMAIN answer |-> UpperLetter(answer[i])]

\* startsAt.set(key, {}): neither direction set
EmptyStart == [across |-> <<>>, down |-> <<>>]

\* the body of validWords.forEach: the word becomes the across or the down
\* entry of its start cell
StartsStep(startsAt, w) ==
    Then(Key(w.row, w.col), LAMBDA key :
        Then(IF key \in DOMAIN startsAt THEN startsAt[key] ELSE EmptyStart, LAMBDA cell :
            Eager([k \in DOMAIN startsAt \cup {key} |->
                      IF k # key THEN startsAt[k]
                      ELSE IF w.direction = "across"
                           THEN [across |-> <<w>>, down |-> cell.down]
                           ELSE [across |-> cell.across, down |-> <<w>>]])))

StartsAt(validWords) ==
    Iterate(LAMBDA m, i : StartsStep(m, validWords[i]), <<>>, 1, Len(validWords))

\* the keys in the order of loops with c outside and r inside
ScanKeysColumnMajor ==
    [x \in 1..(gridSize * gridSize) |-> Key((x - 1) % gridSize, (x - 1) \div gridSize)]

\* the keys of the cells in the order of the loops over r and c
ScanKeys ==
    [x \in 1..(gridSize * gridSize) |-> Key((x - 1) \div gridSize, (x - 1) % gridSize)]

\* the clue pushed for the word of a start cell
Clue(w, num, direction) ==
    [answer |-> toUpperCase(w.answer), clue |-> w.clue, row |-> w.row, col |-> w.col,
     number |-> num, text |-> w.clue, direction |-> direction]

\* the clues pushed at a start cell: across first, then down
CluesOfCell(cell, num) ==
    (IF cell.across # <<>> THEN <<Clue(cell.across[1], num, "across")>> ELSE <<>>)
        \o (IF cell.down # <<>> THEN <<Clue(cell.down[1], num, "down")>> ELSE <<>>)

\* the cells the loops over r and c visit for which startsAt.has(key), in the
\* order of the visit
StartKeys(startsAt) == SelectSeq(ScanKeys, LAMBDA key : key \in DOMAIN startsAt)

\* a body that takes a new number for every clue it pushes
ScanStepPerClue(st, startsAt, key) ==
    LET cell == startsAt[key]
        across == IF cell.across # <<>>
                  THEN <<Clue(cell.across[1], st.currentNumber, "across")>> ELSE <<>>
        down == IF cell.down # <<>>
                THEN <<Clue(cell.down[1], st.currentNumber + Len(across), "down")>>
                ELSE <<>>
    IN  [currentNumber |-> st.currentNumber + Len(across) + Len(down),
         finalClues |-> st.finalClues \o across \o down]

\* the body of the loops at a cell with startsAt.has(key)
ScanStep(st, startsAt, key) ==
    [currentNumber |-> st.currentNumber + 1,
     finalClues |-> st.finalClues \o CluesOfCell(startsAt[key], st.currentNumber)]

\* the loops over r and c
Scan(startsAt, keys) ==
    Iterate(LAMBDA st, x : ScanStep(st, startsAt, keys[x]),
            [currentNumber |-> 1, finalClues |-> <<>>], 1, Len(keys))

\* 2. Assign Numbers
AssignNumbers(validWords) ==
    Then(StartsAt(validWords), LAMBDA startsAt :
        Then(StartKeys(startsAt), LAMBDA keys : Scan(startsAt, keys).finalClues))

-----------------------------------------------------------------------------
(* The RNG streams: createSeededRNG and calls of the closures it returns *)

Streams == {"a", "b"}

NoStream == [made |-> FALSE, seedStr |-> <<>>, seed |-> <<0, 0>>, out |-> <<>>]

\* a construction that keeps seed outside the closure: it sets the state of
\* every stream made so far
CreateSeededRNGModuleSeed(id, s) ==
    /\ ~streams[id].made
    /\ streams' = [i \in Streams |->
                      IF i = id
                      THEN [made |-> TRUE, seedStr |-> s, seed |-> HashSeed(s), out |-> <<>>]
                      ELSE IF streams[i].made
                           THEN [streams[i] EXCEPT !.seed = HashSeed(s)]
                           ELSE streams[i]]
    /\ UNCHANGED <<sudokuVars, layoutVars, moreVars>>

\* const rng = createSeededRNG(s)
CreateSeededRNG(id, s) ==
    /\ ~streams[id].made
    /\ streams' = [streams EXCEPT ![id] =
                      [made |-> TRUE, seedStr |-> s, seed |-> HashSeed(s), out |-> <<>>]]
    /\ UNCHANGED <<sudokuVars, layoutVars, moreVars>>

\* a call on a seed shared by the closures: it moves every stream's state
CallShared(id) ==
    /\ streams[id].made
    /\ Len(streams[id].out) < MaxCalls
    /\ \E c \in {RngCall(streams[id].seed)} :
           streams' = [i \in Streams |->
                          IF i = id
                          THEN [streams[i] EXCEPT !.seed = c.seed, !.out = Append(@, c.value)]
                          ELSE [streams[i] EXCEPT !.seed = c.seed]]
    /\ UNCHANGED <<sudokuVars, layoutVars, moreVars>>

\* rng(): the closure of stream id updates its own seed and returns a value
Call(id) ==
    /\ streams[id].made
    /\ Len(streams[id].out) < MaxCalls
    /\ \E c \in {RngCall(streams[id].seed)} :
           streams' = [streams EXCEPT ![id].seed = c.seed,
                                      ![id].out = Append(@, c.value)]
    /\ UNCHANGED <<sudokuVars, layoutVars, moreVars>>

InitSudokuIdle ==
    /\ difficulty = "Medium"
    /\ seedStr = <<>>
    /\ solution = <<>>
    /\ board = <<>>
    /\ runs = 0
    /\ firstRun = <<>>

InitLayoutIdle ==
    /\ wordsData = <<>>
    /\ size = 0
    /\ grid = <<>>
    /\ placedWords = <<>>
    /\ layoutCalls = 0
    /\ finalClues = <<>>

InitRNGIdle == streams = [id \in Streams |-> NoStream]

InitRNG == InitRNGIdle /\ InitSudokuIdle /\ InitLayoutIdle /\ InitMoreIdle

NextRNG ==
    \/ \E id \in Streams, s \in Seeds : CreateSeededRNG(id, s)
    \/ \E id \in Streams : Call(id)

SpecRNG == InitRNG /\ [][NextRNG]_vars

\* C1: two streams created from the same seed string return the same value at
\* every call index both have reached.
SameSeedSameOutputs ==
    \A i \in Streams, j \in Streams :
        (streams[i].made /\ streams[j].made /\ streams[i].seedStr = streams[j].seedStr)
            => \A n \in DOMAIN streams[i].out \cap DOMAIN streams[j].out :
                   streams[i].out[n] = streams[j].out[n]

\* two streams from one non-empty seed string, called twice or more each but not
\* equally often
SameSeedBothCalled ==
    /\ streams["a"].made /\ streams["b"].made
    /\ streams["a"].seedStr = streams["b"].seedStr
    /\ streams["a"].seedStr # <<>>
    /\ Len(streams["a"].out) >= 2
    /\ Len(streams["b"].out) > Len(streams["a"].out)

\* C2: every value a stream returns is u / 2^32 for an integer u with
\* 0 <= u <= 2^32 - 1 (u is held as <<u div 65536, u mod 65536>>).
OutputsInUnitInterval ==
    \A id \in Streams : \A n \in DOMAIN streams[id].out :
        /\ streams[id].out[n][1] \in 0..65535
        /\ streams[id].out[n][2] \in 0..65535

\* a stream has returned a value of 0.5 or more: its last xor was negative as a
\* signed 32-bit integer
OutputUpperHalf ==
    \E id \in Streams : \E n \in DOMAIN streams[id].out : streams[id].out[n][1] >= 32768

\* C19: calls on one stream never change what another returns: in every
\* interleaving of creations and calls, each stream has returned the values, and
\* holds the state, that the same number of calls gives on a stream used alone.
StreamsIndependent ==
    \A id \in Streams :
        streams[id].made =>
            LET alone == Iterate(LAMBDA st, n :
                                     [seed |-> RngCall(st.seed).seed,
                                      out |-> Append(st.out, RngCall(st.seed).value)],
                                 [seed |-> HashSeed(streams[id].seedStr), out |-> <<>>],
                                 1, Len(streams[id].out))
            IN  /\ streams[id].out = alone.out
                /\ streams[id].seed = alone.seed

\* two streams of different seeds, one called twice or more, the other called
\* at least once and fewer times than the first
TwoSeedsInterleaved ==
    /\ streams["a"].made /\ streams["b"].made
    /\ streams["a"].seedStr # streams["b"].seedStr
    /\ Len(streams["b"].out) >= 1
    /\ Len(streams["a"].out) > Len(streams["b"].out)

\* C20: the stored state is a 32-bit value at every step: it never leaves the
\* range of a 32-bit integer (signed or unsigned), and it is the FNV-1a hash of
\* the seed string, plus 0x6D2B79F5 per call, reduced modulo 2^32.
StateStays32Bit ==
    \A id \in Streams :
        streams[id].made =>
            /\ streams[id].seed[1] \in (-32768)..65535
            /\ streams[id].seed[2] \in 0..65535
            /\ ToUint32(streams[id].seed)
                   = Iterate(LAMBDA st, n : ToUint32(NumAdd(st, Weyl)),
                             ToUint32(HashSeed(streams[id].seedStr)),
                             1, Len(streams[id].out))

-----------------------------------------------------------------------------
(* The Sudoku generator: SudokuGame mounted with a difficulty, in a mode   *)
(* whose seed is seedStr (the date of the day in daily mode), and calls of *)
(* generateBoard.                                                          *)

MaxRuns == 2        \* generateBoard calls made with one seed and difficulty

\* the Difficulty values, and one string that is none of them (App.tsx hands on
\* whatever localStorage holds under 'mindgym-v3-difficulty')
Difficulties == {"Easy", "Medium", "Hard", "Expert"}

EmptyBoard == [r \in 0..8 |-> [c \in 0..8 |-> Null]]

InitSudoku ==
    /\ difficulty \in Difficulties
    /\ seedStr \in Seeds
    /\ solution = <<>>
    /\ board = EmptyBoard
    /\ runs = 0
    /\ firstRun = <<>>
    /\ InitRNGIdle
    /\ InitLayoutIdle
    /\ InitMoreIdle

GenerateBoard ==
    /\ runs < MaxRuns
    /\ \E b \in {generateBoard(seedStr, difficulty)} :
           /\ solution' = b.solution
           /\ board' = b.puzzle
           /\ firstRun' = IF runs = 0 THEN b ELSE firstRun
    /\ runs' = runs + 1
    /\ UNCHANGED <<difficulty, seedStr, rngVars, layoutVars, moreVars>>

NextSudoku == GenerateBoard

SpecSudoku == InitSudoku /\ [][NextSudoku]_vars

\* C3: the solution grid generateBoard produces has each digit 1..9 exactly once
\* in every row, every column and every 3x3 box.
SolutionIsValidSudoku ==
    runs > 0 =>
        /\ \A r \in 0..8 : {solution[r][c] : c \in 0..8} = 1..9
        /\ \A c \in 0..8 : {solution[r][c] : r \in 0..8} = 1..9
        /\ \A br \in 0..2, bc \in 0..2 :
               {solution[(3 * br) + x][(3 * bc) + y] : x \in 0..2, y \in 0..2} = 1..9

\* a solution generated from a non-empty seed, no row of which is a row of the
\* literal left in its place
SolutionTransformed ==
    /\ runs > 0
    /\ seedStr # <<>>
    /\ \A r \in 0..8 : solution[r] # Literal[r]

\* C4: every non-empty cell of the puzzle grid holds the digit of the solution
\* grid at the same row and column.
PuzzleAgreesWithSolution ==
    runs > 0 =>
        \A r \in 0..8, c \in 0..8 : board[r][c] # Null => board[r][c] = solution[r][c]

\* a generated puzzle with revealed and masked cells whose solution is not symmetric
PuzzlePartlyMasked ==
    /\ runs > 0
    /\ \E r \in 0..8, c \in 0..8 : board[r][c] # Null /\ solution[r][c] # solution[c][r]
    /\ \E r \in 0..8, c \in 0..8 : board[r][c] = Null

\* C5: the puzzle grid has exactly 45 non-empty cells for Easy, 35 for Medium and
\* 24 for Hard.
RevealedCountPerDifficulty ==
    runs > 0 =>
        LET revealed == Cardinality({rc \in (0..8) \X (0..8) : board[rc[1]][rc[2]] # Null})
        IN  /\ difficulty = "Easy" => revealed = 45
            /\ difficulty = "Medium" => revealed = 35
            /\ difficulty = "Hard" => revealed = 24

\* an Easy puzzle has been generated from a non-empty seed
EasyPuzzleGenerated ==
    /\ runs > 0
    /\ difficulty = "Easy"
    /\ seedStr # <<>>
    /\ \E r \in 0..8, c \in 0..8 : board[r][c] # Null

\* C6: a difficulty other than Easy, Medium and Hard gives a puzzle with 35
\* revealed cells.
UnrecognizedRevealsMedium ==
    (runs > 0 /\ difficulty \notin {"Easy", "Medium", "Hard"}) =>
        Cardinality({rc \in (0..8) \X (0..8) : board[rc[1]][rc[2]] # Null}) = 35

-----------------------------------------------------------------------------
(* The layout engine: calls of generateGridLayout on word lists *)

MaxWords == 3       \* longest word list
MaxWordLen == 3     \* longest answer
MaxSize == 5        \* largest grid size
MaxLayoutCalls == 2 \* calls of generateGridLayout on one list

Alphabet == {"A", "B"}

\* an answer one letter longer than the caller's grid
LongAnswer == [i \in 1..(gridSize + 1) |-> "A"]

Answers == (SeqsUpTo(Alphabet, MaxWordLen) \ {<<>>}) \cup {LongAnswer}

\* the grid sizes: the caller's, and two small ones in which the short answers
\* reach the edges of the grid or are longer than it
Sizes == {2, MaxSize, gridSize}

\* the word lists of up to n entries: entry i carries the clue i
WordLists(n) ==
    {[i \in 1..Len(as) |-> [answer |-> as[i], clue |-> i]] : as \in SeqsUpTo(Answers, n)}

\* the word list has arrived and the layout has not run
InitLayout ==
    /\ wordsData \in WordLists(MaxWords)
    /\ size \in Sizes
    /\ grid = <<>>
    /\ placedWords = <<>>
    /\ layoutCalls = 0
    /\ finalClues = <<>>
    /\ InitRNGIdle
    /\ InitSudokuIdle
    /\ InitMoreIdle

\* the array in sorted order, left in a caller's list sorted in place
SortedInPlace(words) == SortedWords(words)

\* the caller's list after a call: the sort is applied to the copy [...wordsData]
\* and the placed words are the copies { ...wordObj, row, col, direction }
InputAfter(words) == words

\* one call generateGridLayout(wordsData, size); a second call repeats it on the
\* same list and size
GenerateGridLayout ==
    /\ layoutCalls < MaxLayoutCalls
    /\ \E r \in {generateGridLayout(wordsData, size)} :
           /\ grid' = r.grid
           /\ placedWords' = r.placedWords
    /\ wordsData' = InputAfter(wordsData)
    /\ layoutCalls' = layoutCalls + 1
    /\ UNCHANGED <<size, finalClues, rngVars, sudokuVars, moreVars>>

NextLayout == GenerateGridLayout

SpecLayout == InitLayout /\ [][NextLayout]_vars

\* C8: generateGridLayout on an empty word list returns an empty list.
EmptyListEmptyLayout ==
    (layoutCalls > 0 /\ Len(wordsData) = 0) => placedWords = <<>>

\* the layout has been called on the empty list
EmptyListLaidOut == layoutCalls > 0 /\ Len(wordsData) = 0 /\ size > 0

\* C9: for a non-empty word list the first element of the output is the longest
\* answer, the earliest in the input among the longest, placed across at row
\* floor(size / 2) and column floor((size - length) / 2).
FirstWordLongestCentred ==
    (layoutCalls > 0 /\ Len(wordsData) > 0) =>
        \E i \in DOMAIN wordsData :
            /\ \A x \in DOMAIN wordsData : Len(wordsData[x].answer) <= Len(wordsData[i].answer)
            /\ \A x \in 1..(i - 1) : Len(wordsData[x].answer) < Len(wordsData[i].answer)
            /\ Len(placedWords) > 0
            /\ placedWords[1].answer = wordsData[i].answer
            /\ placedWords[1].clue = wordsData[i].clue
            /\ placedWords[1].direction = "across"
            /\ 2 * placedWords[1].row <= size
            /\ size < (2 * placedWords[1].row) + 2
            /\ 2 * placedWords[1].col <= size - Len(wordsData[i].answer)
            /\ size - Len(wordsData[i].answer) < (2 * placedWords[1].col) + 2

\* a list whose first entry is shorter than its second and third, which have the
\* longest length and different answers
LongestTieNotFirst ==
    /\ layoutCalls > 0
    /\ Len(wordsData) >= 3
    /\ Len(wordsData[1].answer) < Len(wordsData[2].answer)
    /\ Len(wordsData[2].answer) = Len(wordsData[3].answer)
    /\ wordsData[2].answer # wordsData[3].answer
    /\ placedWords[1].clue = 2

\* C10: whenever two placed words of the output cover the same cell, both have
\* the same letter at that cell.
SharedCellsSameLetter ==
    \A p \in DOMAIN placedWords, q \in DOMAIN placedWords :
        \A i \in 0..(Len(placedWords[p].answer) - 1), j \in 0..(Len(placedWords[q].answer) - 1) :
            (CellAt(placedWords[p].row, placedWords[p].col, placedWords[p].direction, i)
               = CellAt(placedWords[q].row, placedWords[q].col, placedWords[q].direction, j))
            => Letter(placedWords[p].answer, i) = Letter(placedWords[q].answer, j)

\* an output with a word that shares one cell with a second placed word and another
\* cell with a third
WordCrossesTwoWords ==
    \E p \in DOMAIN placedWords, q \in DOMAIN placedWords, r \in DOMAIN placedWords :
        /\ p # q /\ p # r /\ q < r
        /\ \E i \in 0..(Len(placedWords[p].answer) - 1), j \in 0..(Len(placedWords[p].answer) - 1) :
               /\ i # j
               /\ CellAt(placedWords[p].row, placedWords[p].col, placedWords[p].direction, i)
                    \in {CellAt(placedWords[q].row, placedWords[q].col,
                                placedWords[q].direction, x) :
                             x \in 0..(Len(placedWords[q].answer) - 1)}
               /\ CellAt(placedWords[p].row, placedWords[p].col, placedWords[p].direction, j)
                    \in {CellAt(placedWords[r].row, placedWords[r].col,
                                placedWords[r].direction, x) :
                             x \in 0..(Len(placedWords[r].answer) - 1)}

\* C12: every word of the output lies inside the grid: each of its cells has
\* 0 <= row < size and 0 <= col < size.
PlacedWordsInsideGrid ==
    \A p \in DOMAIN placedWords : \A i \in 0..(Len(placedWords[p].answer) - 1) :
        LET at == CellAt(placedWords[p].row, placedWords[p].col, placedWords[p].direction, i)
        IN  InGrid(size, at[1], at[2])

\* C13: the output holds at most one placement of each input entry and is no
\* longer than the input.
EachWordPlacedOnce ==
    /\ \A p \in DOMAIN placedWords, q \in DOMAIN placedWords :
           placedWords[p].clue = placedWords[q].clue => p = q
    /\ Len(placedWords) <= Len(wordsData)

\* C14: when no other word of the input shares a letter with the first-placed
\* word, the output is that word alone.
NoSharedLetterOnlyFirst ==
    (/\ layoutCalls > 0
     /\ Len(wordsData) > 0
     /\ \A x \in DOMAIN wordsData :
            wordsData[x].clue # placedWords[1].clue =>
                \A i \in DOMAIN wordsData[x].answer, k \in DOMAIN placedWords[1].answer :
                    wordsData[x].answer[i] # placedWords[1].answer[k])
        => Len(placedWords) = 1

\* a list of three whose longest word has no letter of the other two, laid out on
\* a grid with room above the first word
ThreeWordsNoSharedLetter ==
    /\ layoutCalls > 0
    /\ Len(wordsData) = 3
    /\ size >= 5
    /\ Len(placedWords) = 1
    /\ \A x \in DOMAIN wordsData :
           wordsData[x].clue # placedWords[1].clue =>
               \A i \in DOMAIN wordsData[x].answer, k \in DOMAIN placedWords[1].answer :
                   wordsData[x].answer[i] # placedWords[1].answer[k]

-----------------------------------------------------------------------------
(* The crossword puzzle: generateCrosswordPuzzle on the word lists a         *)
(* response can hold                                                         *)

MaxPuzzleWords == 4     \* longest word list of a response

InitCrossword ==
    /\ wordsData \in WordLists(MaxPuzzleWords)
    /\ size = gridSize
    /\ grid = <<>>
    /\ placedWords = <<>>
    /\ layoutCalls = 0
    /\ finalClues = <<>>
    /\ InitRNGIdle
    /\ InitSudokuIdle
    /\ InitMoreIdle

\* generateCrosswordPuzzle from the parsed response to its return value
GenerateCrosswordPuzzle ==
    /\ layoutCalls = 0
    /\ \E r \in {generateGridLayout(wordsData, gridSize)} :
           /\ grid' = r.grid
           /\ placedWords' = r.placedWords
           /\ \E clues \in {AssignNumbers(r.placedWords)} : finalClues' = clues
    /\ wordsData' = InputAfter(wordsData)
    /\ layoutCalls' = layoutCalls + 1
    /\ UNCHANGED <<size, rngVars, sudokuVars, moreVars>>

NextCrossword == GenerateCrosswordPuzzle

SpecCrossword == InitCrossword /\ [][NextCrossword]_vars

\* C11: in the returned layout the cell before the first letter and the cell
\* after the last letter of every word, along the word's direction, is empty or
\* off the grid, and no two words of one direction on one line overlap or touch.
WordEndsClearAndApart ==
    LET Cells(w) == {CellAt(w.row, w.col, w.direction, i) : i \in 0..(Len(w.answer) - 1)}
        Ends(w) == {CellAt(w.row, w.col, w.direction, -1),
                    CellAt(w.row, w.col, w.direction, Len(w.answer))}
    IN  \A p \in DOMAIN placedWords :
            /\ \A e \in Ends(placedWords[p]) :
                   Cell(grid, size, e[1], e[2]) \in {"null", "undefined"}
            /\ \A q \in DOMAIN placedWords \ {p} :
                   placedWords[q].direction = placedWords[p].direction
                       => Cells(placedWords[p])
                              \cap (Cells(placedWords[q]) \cup Ends(placedWords[q])) = {}

\* C16: the clue numbers are 1, 2, 3, ... without gaps, one per distinct start
\* cell, and a start cell earlier in row-major order has the smaller number.
ClueNumbersRowMajor ==
    LET starts == {<<finalClues[x].row, finalClues[x].col>> : x \in DOMAIN finalClues}
    IN  /\ {finalClues[x].number : x \in DOMAIN finalClues} = 1..Cardinality(starts)
        /\ \A x \in DOMAIN finalClues, y \in DOMAIN finalClues :
               (\/ finalClues[x].row < finalClues[y].row
                \/ /\ finalClues[x].row = finalClues[y].row
                   /\ finalClues[x].col < finalClues[y].col)
                   => finalClues[x].number < finalClues[y].number

\* three or more start cells are numbered, and a word placed later starts
\* earlier in row-major order than a word placed before it
ThreeStartsOutOfPlacementOrder ==
    /\ Cardinality({<<finalClues[x].row, finalClues[x].col>> : x \in DOMAIN finalClues}) >= 3
    /\ \E p \in DOMAIN placedWords, q \in DOMAIN placedWords :
           /\ p < q
           /\ placedWords[q].row < placedWords[p].row
           /\ placedWords[q].col > placedWords[p].col

\* C17: two clues have the same number exactly when they start at the same
\* cell; an across and a down word of one start cell share their number.
SameStartSameNumber ==
    \A x \in DOMAIN finalClues, y \in DOMAIN finalClues :
        (finalClues[x].row = finalClues[y].row /\ finalClues[x].col = finalClues[y].col)
            <=> finalClues[x].number = finalClues[y].number

\* an across clue and a down clue start at one cell, and another cell is numbered
\* after it
AcrossAndDownShareStart ==
    \E x \in DOMAIN finalClues, y \in DOMAIN finalClues, z \in DOMAIN finalClues :
        /\ finalClues[x].direction = "across"
        /\ finalClues[y].direction = "down"
        /\ finalClues[x].row = finalClues[y].row
        /\ finalClues[x].col = finalClues[y].col
        /\ z > y

\* C18: every word of the layout appears exactly once in the numbered clues,
\* and the clues hold nothing else: no placed word is lost or repeated.
EveryPlacedWordNumberedOnce ==
    /\ Len(finalClues) = Len(placedWords)
    /\ \A p \in DOMAIN placedWords :
           Cardinality({x \in DOMAIN finalClues :
                           /\ finalClues[x].clue = placedWords[p].clue
                           /\ finalClues[x].row = placedWords[p].row
                           /\ finalClues[x].col = placedWords[p].col
                           /\ finalClues[x].direction = placedWords[p].direction}) = 1

\* C23: in the returned grid every maximal horizontal or vertical run of two
\* or more filled cells is the span of one placed word of that direction, and
\* spells it: no letter sequence exists that is not a placed word.
RunsArePlacedWords ==
    \A cell \in DOMAIN grid : \A direction \in {"across", "down"} :
        (/\ CellAt(cell[1], cell[2], direction, -1) \notin DOMAIN grid
         /\ CellAt(cell[1], cell[2], direction, 1) \in DOMAIN grid)
            => \E p \in DOMAIN placedWords :
                   /\ placedWords[p].direction = direction
                   /\ placedWords[p].row = cell[1]
                   /\ placedWords[p].col = cell[2]
                   /\ CellAt(cell[1], cell[2], direction, Len(placedWords[p].answer))
                          \notin DOMAIN grid
                   /\ \A i \in 0..(Len(placedWords[p].answer) - 1) :
                          grid[CellAt(cell[1], cell[2], direction, i)]
                              = Letter(placedWords[p].answer, i)

\* a layout with two down words of two letters or more in columns two apart, and
\* an across word below the first one
ParallelWordsApart ==
    \E p \in DOMAIN placedWords, q \in DOMAIN placedWords, x \in DOMAIN placedWords :
        /\ placedWords[p].direction = "down"
        /\ placedWords[q].direction = "down"
        /\ Len(placedWords[p].answer) >= 2
        /\ Len(placedWords[q].answer) >= 2
        /\ placedWords[q].col = placedWords[p].col + 2
        /\ x > 1
        /\ placedWords[x].direction = "across"
        /\ Len(placedWords[x].answer) >= 2

\* C24: every placed word after the first crosses a word placed before it, of
\* the other direction, at a cell where its letter j is that word's letter k:
\* a down word starts at (placedRow - j, placedCol + k), an across word at
\* (placedRow + k, placedCol - j).
EveryWordCrossesEarlier ==
    \A q \in DOMAIN placedWords :
        q > 1 =>
            \E p \in 1..(q - 1) :
                \E j \in 0..(Len(placedWords[q].answer) - 1),
                   k \in 0..(Len(placedWords[p].answer) - 1) :
                    /\ placedWords[p].direction # placedWords[q].direction
                    /\ Letter(placedWords[q].answer, j) = Letter(placedWords[p].answer, k)
                    /\ IF placedWords[q].direction = "down"
                       THEN /\ placedWords[q].row = placedWords[p].row - j
                            /\ placedWords[q].col = placedWords[p].col + k
                       ELSE /\ placedWords[q].row = placedWords[p].row + k
                            /\ placedWords[q].col = placedWords[p].col - j

\* the fourth placement is an across word that crosses a down word below that
\* word's first letter, at a letter that is not its own first
AcrossWordCrossesDownWord ==
    /\ Len(placedWords) >= 4
    /\ placedWords[4].direction = "across"
    /\ \E p \in 2..3 :
           /\ placedWords[p].direction = "down"
           /\ placedWords[4].row > placedWords[p].row
           /\ placedWords[4].col < placedWords[p].col

-----------------------------------------------------------------------------
(* shuffle(array, rng) run one loop iteration at a time.  The rng handed   *)
(* in is either a function returning any value of [0, 1) (here the lowest, *)
(* the middle and the highest value u / 2^32) or a stream of               *)
(* createSeededRNG, as in generateBoard.                                   *)

MaxShuffleLen == 3      \* longest array of arbitrary elements

\* elements of the arbitrary arrays: two values, so that arrays hold repeats
ShuffleElems == {1, 2}

\* values an arbitrary rng returns: 0, 0.5 and (2^32 - 1) / 2^32
RngOutputs == {<<0, 0>>, <<32768, 0>>, <<65535, 65535>>}

ArrayOf(s) == Eager([x \in 0..(Len(s) - 1) |-> s[x + 1]])

\* const nums = [1,2,3,4,5,6,7,8,9]
Nums == Eager([x \in 0..8 |-> x + 1])

\* Array.from({ length: 81 }, (_, i) => i)
Indices == Eager([x \in 0..80 |-> x])

ArrayLength(array) == Cardinality(DOMAIN array)

InitShuffle ==
    /\ \/ /\ shInput \in {ArrayOf(s) : s \in SeqsUpTo(ShuffleElems, MaxShuffleLen)} \cup {Nums}
          /\ shRng = [seeded |-> FALSE, seed |-> <<0, 0>>]
       \/ /\ shInput \in {Nums, Indices}
          /\ shRng \in {[seeded |-> TRUE, seed |-> HashSeed(s)] : s \in Seeds}
    /\ shArray = shInput
    /\ shI = ArrayLength(shInput) - 1
    /\ shJ = 0
    /\ InitRNGIdle
    /\ InitSudokuIdle
    /\ InitLayoutIdle
    /\ InitNotShuffleIdle

\* one iteration of the loop with an rng that returns value
ShuffleIteration(value) ==
    /\ ~shRng.seeded
    /\ shI > 0
    /\ shJ' = FloorMul(value, shI + 1)
    /\ shArray' = ShuffleBody(shArray, shI, value)
    /\ shI' = shI - 1
    /\ UNCHANGED <<shInput, shRng, rngVars, sudokuVars, layoutVars, notShuffleVars>>

\* one iteration of the loop with a stream of createSeededRNG
ShuffleIterationSeeded ==
    /\ shRng.seeded
    /\ shI > 0
    /\ \E n \in {ArrayLength(shArray)} :
       \E st \in {ShuffleStep([n |-> n, seed |-> shRng.seed, array |-> shArray], n - shI)} :
           /\ shArray' = st.array
           /\ shRng' = [shRng EXCEPT !.seed = st.seed]
    /\ shJ' = FloorMul(RngCall(shRng.seed).value, shI + 1)
    /\ shI' = shI - 1
    /\ UNCHANGED <<shInput, rngVars, sudokuVars, layoutVars, notShuffleVars>>

NextShuffle ==
    \/ \E value \in RngOutputs : ShuffleIteration(value)
    \/ ShuffleIterationSeeded

SpecShuffle == InitShuffle /\ [][NextShuffle]_vars

\* C21: the index j drawn at step i satisfies 0 <= j <= i, and the array is at
\* every step a permutation of the input (same elements, same multiplicities);
\* shuffled [1..9] is a bijection onto 1..9 and shuffled 0..80 holds 81 distinct
\* cell indices.
ShufflePermutes ==
    /\ shJ \in 0..(shI + 1)
    /\ DOMAIN shArray = DOMAIN shInput
    /\ \A v \in {shInput[x] : x \in DOMAIN shInput} \cup {shArray[x] : x \in DOMAIN shArray} :
           Cardinality({x \in DOMAIN shArray : shArray[x] = v})
               = Cardinality({x \in DOMAIN shInput : shInput[x] = v})
    /\ shInput = Nums => {shArray[x] : x \in 0..8} = 1..9
    /\ shInput = Indices => Cardinality({shArray[x] : x \in 0..80}) = 81

\* a shuffle of an array with a repeated element has ended with the array in
\* another order than it was handed in
ShuffleReorderedRepeats ==
    /\ shI = 0
    /\ ArrayLength(shInput) = 3
    /\ shInput[0] = shInput[1]
    /\ shArray # shInput

-----------------------------------------------------------------------------
(* generateBoard run one step at a time, from the creation of its rng to   *)
(* setBoard(puzzle).  genPrev keeps what the step before saw.              *)

\* the steps in program order
GenSteps ==
    <<"transpose", "rows", "rows", "rows", "columnsIn", "columns", "columns", "columns",
      "columnsOut", "bands", "numbers", "mask", "done">>

\* the band a step of the two band loops works on
BandOf(pc) == IF pc <= 4 THEN pc - 2 ELSE pc - 6

InitGenerator ==
    /\ difficulty \in Difficulties
    /\ seedStr \in Seeds
    /\ solution = <<>>
    /\ board = EmptyBoard
    /\ runs = 0
    /\ firstRun = <<>>
    /\ baseGrid = BaseGrid
    /\ rngSeed = HashSeed(seedStr)
    /\ genPc = 1
    /\ genPrev = <<>>
    /\ InitRNGIdle
    /\ InitLayoutIdle
    /\ InitNotGenIdle

\* a step that works on baseGrid and the rng, leaving st
GenAdvance(st) ==
    /\ baseGrid' = st.g
    /\ rngSeed' = st.seed
    /\ genPrev' = [pc |-> genPc, g |-> baseGrid, seed |-> rngSeed]
    /\ genPc' = genPc + 1
    /\ UNCHANGED <<sudokuVars, rngVars, layoutVars, notGenVars>>

\* 1. Transpose?
GenTranspose ==
    /\ GenSteps[genPc] = "transpose"
    /\ \E st \in {TransposeStep([g |-> baseGrid, seed |-> rngSeed])} : GenAdvance(st)

\* 2. / 3. one iteration of a band loop
GenBand ==
    /\ GenSteps[genPc] \in {"rows", "columns"}
    /\ \E st \in {BandStep([g |-> baseGrid, seed |-> rngSeed], BandOf(genPc))} : GenAdvance(st)

\* 3. the transpose before and the transpose after the loop
GenColumnsTranspose ==
    /\ GenSteps[genPc] \in {"columnsIn", "columnsOut"}
    /\ GenAdvance([g |-> Transpose(baseGrid), seed |-> rngSeed])

\* 4. Swap Bands
GenSwapBands ==
    /\ GenSteps[genPc] = "bands"
    /\ \E st \in {SwapBands([g |-> baseGrid, seed |-> rngSeed])} : GenAdvance(st)

\* 5. Permute Numbers
GenPermuteNumbers ==
    /\ GenSteps[genPc] = "numbers"
    /\ \E st \in {PermuteNumbers([g |-> baseGrid, seed |-> rngSeed])} : GenAdvance(st)

\* setSolution(baseGrid), Create Puzzle Mask, setBoard(puzzle)
GenMask ==
    /\ GenSteps[genPc] = "mask"
    /\ \E b \in {MaskStep([g |-> baseGrid, seed |-> rngSeed], difficulty)} :
           /\ solution' = b.solution
           /\ board' = b.puzzle
    /\ genPrev' = [pc |-> genPc, g |-> baseGrid, seed |-> rngSeed]
    /\ genPc' = genPc + 1
    /\ UNCHANGED <<difficulty, seedStr, runs, firstRun, baseGrid, rngSeed,
                   rngVars, layoutVars, notGenVars>>

NextGenerator ==
    \/ GenTranspose
    \/ GenBand
    \/ GenColumnsTranspose
    \/ GenSwapBands
    \/ GenPermuteNumbers
    \/ GenMask

SpecGenerator == InitGenerator /\ [][NextGenerator]_vars

\* C22 as stated: each of the five transformations (transpose, row shuffle of a
\* band, column shuffle of a band, shuffle of the three bands, digit
\* relabeling) leaves the grid unchanged when the rng() drawn first in it is
\* not above 0.5.
EveryTransformationGated ==
    (/\ genPrev # <<>>
     /\ GenSteps[genPrev.pc] \in {"transpose", "rows", "columns", "bands", "numbers"}
     /\ ~GreaterHalf(RngCall(genPrev.seed).value))
        => baseGrid = genPrev.g

\* C22, amended: the transpose and the shuffle of each row band and of each
\* column band draw one rng() as a coin and leave the grid unchanged, drawing
\* nothing more, when it is not above 0.5; the shuffle of the three bands and
\* the digit relabeling draw no coin: they run always, and every rng() they
\* draw (2 and 8) is a shuffle index.
CoinGatesTransposeAndBandLoops ==
    genPrev # <<>> =>
        LET step == GenSteps[genPrev.pc]
            coin == RngCall(genPrev.seed)
            Draws(n) == Iterate(LAMBDA sd, x : NextSeed(sd), genPrev.seed, 1, n)
        IN  /\ step \in {"transpose", "rows", "columns"} =>
                  /\ ~GreaterHalf(coin.value) => (baseGrid = genPrev.g /\ rngSeed = coin.seed)
                  /\ GreaterHalf(coin.value) =>
                         rngSeed = Draws(IF step = "transpose" THEN 1 ELSE 3)
                  /\ (step = "transpose" /\ GreaterHalf(coin.value)) =>
                         baseGrid = Transpose(genPrev.g)
            /\ step = "bands" => rngSeed = Draws(2)
            /\ step = "numbers" => rngSeed = Draws(8)

\* the three bands were shuffled into another order although the rng() drawn
\* first in that step was not above 0.5
BandsShuffledWithoutCoin ==
    /\ genPrev # <<>>
    /\ GenSteps[genPrev.pc] = "bands"
    /\ ~GreaterHalf(RngCall(genPrev.seed).value)
    /\ baseGrid # genPrev.g

-----------------------------------------------------------------------------
(* generateGridLayout run one iteration of the loop over remaining at a    *)
(* time.  tryLog keeps, for each iteration, the word and the grid and      *)
(* placedWords it met; passOne keeps grid and placedWords at the end of    *)
(* pass 0.                                                                 *)

MaxPassWords == 4       \* longest word list
MaxPassWordLen == 2     \* longest answer
PassSize == 4           \* the size given to generateGridLayout

PassAlphabet == {"A", "B", "C"}

PassWordLists(n) ==
    {[i \in 1..Len(as) |-> [answer |-> as[i], clue |-> i]] :
        as \in SeqsUpTo(SeqsUpTo(PassAlphabet, MaxPassWordLen) \ {<<>>}, n)}

InitPasses ==
    /\ wordsData \in PassWordLists(MaxPassWords)
    /\ size = PassSize
    /\ grid = <<>>
    /\ placedWords = <<>>
    /\ layoutCalls = 0
    /\ finalClues = <<>>
    /\ InitPassIdle
    /\ InitRNGIdle
    /\ InitSudokuIdle
    /\ InitNotPassIdle

\* from the entry to the first test of the pass loop; on an empty list, to return []
LayoutBegin ==
    /\ wordIdx = 0
    /\ layoutCalls = 0
    /\ \E sortedWords \in {SortedWords(wordsData)} :
           IF Len(sortedWords) = 0
           THEN /\ layoutCalls' = 1
                /\ UNCHANGED <<grid, placedWords, passVars>>
           ELSE /\ \E st \in {PlaceFirst(sortedWords[1], size)} :
                       /\ grid' = st.grid
                       /\ placedWords' = st.placedWords
                /\ remainingWords' = Tail(sortedWords)
                /\ wordIdx' = 1
                /\ UNCHANGED <<layoutCalls, passNo, tryLog, passOne>>
    /\ UNCHANGED <<wordsData, size, finalClues, rngVars, sudokuVars, notPassVars>>

\* one iteration of the loop over remaining
LayoutTryWord ==
    /\ layoutCalls = 0
    /\ wordIdx \in 1..Len(remainingWords)
    /\ \E st \in {WordStep([grid |-> grid, placedWords |-> placedWords], size,
                           remainingWords[wordIdx])} :
           /\ grid' = st.grid
           /\ placedWords' = st.placedWords
           /\ tryLog' = Append(tryLog, [pass |-> passNo,
                                        wordObj |-> remainingWords[wordIdx],
                                        grid |-> grid,
                                        placedWords |-> placedWords,
                                        pushed |-> Len(st.placedWords) - Len(placedWords)])
    /\ wordIdx' = wordIdx + 1
    /\ UNCHANGED <<wordsData, size, layoutCalls, finalClues, remainingWords, passNo, passOne,
                   rngVars, sudokuVars, notPassVars>>

\* i reaches remaining.length: pass++, and return placedWords when pass reaches 2
LayoutEndPass ==
    /\ layoutCalls = 0
    /\ wordIdx = Len(remainingWords) + 1
    /\ passNo' = passNo + 1
    /\ wordIdx' = 1
    /\ passOne' = IF passNo = 0 THEN [grid |-> grid, placedWords |-> placedWords] ELSE passOne
    /\ layoutCalls' = IF passNo = 1 THEN 1 ELSE 0
    /\ UNCHANGED <<wordsData, size, grid, placedWords, finalClues, remainingWords, tryLog,
                   rngVars, sudokuVars, notPassVars>>

NextPasses ==
    \/ LayoutBegin
    \/ LayoutTryWord
    \/ LayoutEndPass

SpecPasses == InitPasses /\ [][NextPasses]_vars

\* C25 as stated: the loop makes two passes over remaining in order; a word
\* that was tried in pass one and had no valid intersection then, but has one
\* with the grid and the words placed at the end of pass one, is placed in pass
\* two, and a word placed in pass one is skipped in pass two.
LatecomersPlacedInPassTwo ==
    LET Valid(g, pw, w) ==
            \E p \in DOMAIN pw :
                \E j \in 0..(Len(w.answer) - 1), k \in 0..(Len(pw[p].answer) - 1) :
                    /\ Letter(pw[p].answer, k) = Letter(w.answer, j)
                    /\ IF pw[p].direction = "across"
                       THEN /\ pw[p].row - j >= 0
                            /\ (pw[p].row - j) + Len(w.answer) <= size
                            /\ canPlaceWord(g, size, w.answer, pw[p].row - j, pw[p].col + k,
                                            "down")
                       ELSE /\ pw[p].col - j >= 0
                            /\ (pw[p].col - j) + Len(w.answer) <= size
                            /\ canPlaceWord(g, size, w.answer, pw[p].row + k, pw[p].col - j,
                                            "across")
        Skipped(e) == \E p \in DOMAIN e.placedWords : e.placedWords[p].answer = e.wordObj.answer
        n == Len(remainingWords)
    IN  layoutCalls = 1 =>
            /\ Len(tryLog) = 2 * n
            /\ \A x \in 1..n :
                   /\ (/\ ~Skipped(tryLog[x])
                       /\ ~Valid(tryLog[x].grid, tryLog[x].placedWords, tryLog[x].wordObj)
                       /\ Valid(passOne.grid, passOne.placedWords, tryLog[x].wordObj))
                          => tryLog[x + n].pushed > 0
                   /\ tryLog[x].pushed > 0 => tryLog[x + n].pushed = 0

\* C25, amended: the loop makes two passes over remaining in order; in either
\* pass a word whose answer is among the placed words is skipped, and any other
\* word is placed exactly when it has a valid intersection with the grid and
\* the placed words as they are when its turn comes, which in pass two include
\* the words placed earlier in pass two.
PassesTryAgainstCurrentGrid ==
    LET Valid(g, pw, w) ==
            \E p \in DOMAIN pw :
                \E j \in 0..(Len(w.answer) - 1), k \in 0..(Len(pw[p].answer) - 1) :
                    /\ Letter(pw[p].answer, k) = Letter(w.answer, j)
                    /\ IF pw[p].direction = "across"
                       THEN /\ pw[p].row - j >= 0
                            /\ (pw[p].row - j) + Len(w.answer) <= size
                            /\ canPlaceWord(g, size, w.answer, pw[p].row - j, pw[p].col + k,
                                            "down")
                       ELSE /\ pw[p].col - j >= 0
                            /\ (pw[p].col - j) + Len(w.answer) <= size
                            /\ canPlaceWord(g, size, w.answer, pw[p].row + k, pw[p].col - j,
                                            "across")
        Skipped(e) == \E p \in DOMAIN e.placedWords : e.placedWords[p].answer = e.wordObj.answer
        n == Len(remainingWords)
    IN  /\ layoutCalls = 1 => Len(tryLog) = 2 * n
        /\ \A x \in DOMAIN tryLog :
               /\ tryLog[x].pass = (x - 1) \div n
               /\ tryLog[x].pass \in {0, 1}
               /\ tryLog[x].wordObj = remainingWords[((x - 1) % n) + 1]
               /\ Skipped(tryLog[x]) => tryLog[x].pushed = 0
               /\ ~Skipped(tryLog[x]) =>
                      (tryLog[x].pushed > 0
                          <=> Valid(tryLog[x].grid, tryLog[x].placedWords, tryLog[x].wordObj))

\* a word found no intersection in pass one, had one with the layout at the end
\* of pass one, was tried in pass two and not placed: a word placed before it in
\* pass two had taken the cells
LatecomerLostItsCells ==
    LET Valid(g, pw, w) ==
            \E p \in DOMAIN pw :
                \E j \in 0..(Len(w.answer) - 1), k \in 0..(Len(pw[p].answer) - 1) :
                    /\ Letter(pw[p].answer, k) = Letter(w.answer, j)
                    /\ IF pw[p].direction = "across"
                       THEN /\ pw[p].row - j >= 0
                            /\ (pw[p].row - j) + Len(w.answer) <= size
                            /\ canPlaceWord(g, size, w.answer, pw[p].row - j, pw[p].col + k,
                                            "down")
                       ELSE /\ pw[p].col - j >= 0
                            /\ (pw[p].col - j) + Len(w.answer) <= size
                            /\ canPlaceWord(g, size, w.answer, pw[p].row + k, pw[p].col - j,
                                            "across")
        Skipped(e) == \E p \in DOMAIN e.placedWords : e.placedWords[p].answer = e.wordObj.answer
        n == Len(remainingWords)
    IN  /\ layoutCalls = 1
        /\ \E x \in 1..n :
               /\ ~Skipped(tryLog[x])
               /\ tryLog[x].pushed = 0
               /\ Valid(passOne.grid, passOne.placedWords, tryLog[x].wordObj)
               /\ ~Skipped(tryLog[x + n])
               /\ tryLog[x + n].pushed = 0
               /\ Len(placedWords) > Len(passOne.placedWords)

-----------------------------------------------------------------------------
(* SudokuGame played: cell clicks, number inputs, the 2-second error       *)
(* timeouts and toggleMode.  A step is a handler (or a timeout callback)   *)
(* together with the render and the effects that follow it.  The game      *)
(* starts mounted in daily mode, either on a fresh board or on a game      *)
(* restored from localStorage in which all masked cells but the first      *)
(* MaxOpenCells hold their digit.  Clicks go to those cells and to the     *)
(* first revealed cell; a number input is the digit of the solution or     *)
(* the digit after it.  given is not program state: it records which       *)
(* cells generateBoard revealed, also inside a saved game.                 *)

MaxOpenCells == 1       \* masked cells still empty in a restored game
MaxInputs == 2          \* handleNumberInput calls
MaxToggles == 1         \* toggleMode calls

Modes == {"daily", "practice"}

\* getDailyISO(): a string of the characters of a date, here "1-"
DailySeeds == {<<49, 45>>}

\* Math.random().toString(): "0" or a string that starts with "0."
PracticeSeeds == {<<48>>, <<48, 46>>}

\* Array(9).fill(null).map(() => Array(9).fill(false))
NoErrors == EagerGrid([r \in 0..8 |-> [c \in 0..8 |-> FALSE]])

\* a copy of the grid with one cell replaced
SetCell(g, r, c, v) == EagerGrid([g EXCEPT ![r][c] = v])

\* the first MaxOpenCells masked cells of a puzzle, in row-major order
OpenCells(puzzle) ==
    LET masked == {x \in 0..80 : puzzle[x \div 9][x % 9] = Null}
    IN  {<<x \div 9, x % 9>> :
            x \in {y \in masked : Cardinality({z \in masked : z < y}) < MaxOpenCells}}

\* the cells clicked: the open cells and the first revealed cell
ClickCells(puzzle) ==
    LET revealed == {x \in 0..80 : puzzle[x \div 9][x % 9] # Null}
    IN  OpenCells(puzzle)
            \cup {<<x \div 9, x % 9>> : x \in {y \in revealed : \A z \in revealed : y <= z}}

\* the digits entered at a cell: the right one and a wrong one
InputDigits(sol, cell) == {sol[cell[1]][cell[2]], (sol[cell[1]][cell[2]] % 9) + 1}

\* the board of a game played on puzzle b.puzzle up to its last open cells
NearlySolved(b) ==
    EagerGrid([r \in 0..8 |-> [c \in 0..8 |->
        IF <<r, c>> \in OpenCells(b.puzzle) THEN Null ELSE b.solution[r][c]]])

\* newBoard.every((row, ri) => row.every((val, ci) => val === solution[ri][ci]))
BoardComplete(b, sol) == \A r \in 0..8, c \in 0..8 : b[r][c] = sol[r][c]

\* the effect on [board, solution, errors, isInitialized]
PersistEffect(store, key, isInitialized, b, sol, err, puzzle) ==
    IF isInitialized /\ (\E r \in 0..8, c \in 0..8 : b[r][c] # Null)
    THEN [store EXCEPT ![key] = <<[board |-> b, solution |-> sol, errors |-> err,
                                   given |-> puzzle]>>]
    ELSE store

InitGame ==
    /\ difficulty \in Difficulties
    /\ seedStr \in DailySeeds
    /\ runs = 0
    /\ firstRun = <<>>
    /\ mode = "daily"
    /\ \E b \in {generateBoard(seedStr, difficulty)} :
           /\ solution = b.solution
           /\ given = b.puzzle
           /\ board \in {b.puzzle, NearlySolved(b)}
    /\ errors = NoErrors
    /\ storage = PersistEffect([m \in Modes |-> <<>>], "daily", TRUE,
                               board, solution, errors, given)
    /\ selectedCell = <<>>
    /\ timers = <<>>
    /\ inputs = 0
    /\ completes = 0
    /\ toggles = 0
    /\ InitRNGIdle
    /\ InitLayoutIdle
    /\ InitNotGameIdle

\* handleCellClick(r, c)
HandleCellClick(cell) ==
    /\ selectedCell' = cell
    /\ UNCHANGED <<sudokuVars, errors, mode, storage, timers, given, inputs, completes, toggles,
                   rngVars, layoutVars, notGameVars>>

\* handleNumberInput(num), the render after it and the persistence effect
HandleNumberInput(num) ==
    /\ inputs < MaxInputs
    /\ selectedCell # <<>>
    /\ \E r \in {selectedCell[1]}, c \in {selectedCell[2]} :
       \E isError \in {num # solution[r][c]} :
       \E newBoard \in {SetCell(board, r, c, num)}, newErrors \in {SetCell(errors, r, c, isError)} :
       \E won \in {BoardComplete(newBoard, solution)} :
           /\ board' = newBoard
           /\ errors' = newErrors
           /\ timers' = IF isError THEN Append(timers, <<r, c>>) ELSE timers
           /\ completes' = IF won THEN completes + 1 ELSE completes
           /\ storage' = PersistEffect(IF won THEN [storage EXCEPT ![mode] = <<>>] ELSE storage,
                                       mode, TRUE, newBoard, solution, newErrors, given)
    /\ inputs' = inputs + 1
    /\ UNCHANGED <<difficulty, seedStr, solution, runs, firstRun, selectedCell, mode, given,
                   toggles, rngVars, layoutVars, notGameVars>>

\* the callback of the oldest pending setTimeout, the render and the effect
ErrorTimeout ==
    /\ timers # <<>>
    /\ \E r \in {Head(timers)[1]}, c \in {Head(timers)[2]} :
       \E updatedErrors \in {SetCell(errors, r, c, FALSE)},
          updatedBoard \in {SetCell(board, r, c, Null)} :
           /\ errors' = updatedErrors
           /\ board' = updatedBoard
           /\ storage' = PersistEffect(storage, mode, TRUE, updatedBoard, solution,
                                       updatedErrors, given)
    /\ timers' = Tail(timers)
    /\ UNCHANGED <<difficulty, seedStr, solution, runs, firstRun, selectedCell, mode, given,
                   inputs, completes, toggles, rngVars, layoutVars, notGameVars>>

\* toggleMode, the mount effect for the new mode (restore the saved game of its
\* key, or generateBoard with the date or a random seed) and the persistence effect
ToggleMode ==
    /\ toggles < MaxToggles
    /\ \E newMode \in Modes \ {mode} :
           /\ mode' = newMode
           /\ IF storage[newMode] # <<>>
              THEN /\ board' = storage[newMode][1].board
                   /\ solution' = storage[newMode][1].solution
                   /\ errors' = storage[newMode][1].errors
                   /\ given' = storage[newMode][1].given
                   /\ storage' = PersistEffect(storage, newMode, TRUE, board', solution',
                                               errors', given')
              ELSE \E seed \in (IF newMode = "daily" THEN {seedStr} ELSE PracticeSeeds) :
                   \E b \in {generateBoard(seed, difficulty)} :
                       /\ board' = b.puzzle
                       /\ solution' = b.solution
                       /\ errors' = NoErrors
                       /\ given' = b.puzzle
                       /\ storage' = PersistEffect(storage, newMode, TRUE, b.puzzle,
                                                   b.solution, NoErrors, b.puzzle)
    /\ toggles' = toggles + 1
    /\ UNCHANGED <<difficulty, seedStr, runs, firstRun, selectedCell, timers, inputs, completes,
                   rngVars, layoutVars, notGameVars>>

NextGame ==
    \/ \E cell \in ClickCells(given) : HandleCellClick(cell)
    \/ selectedCell # <<>> /\ \E num \in InputDigits(solution, selectedCell) : HandleNumberInput(num)
    \/ ErrorTimeout
    \/ ToggleMode

SpecGame == InitGame /\ [][NextGame]_vars

\* C26: a cell that holds the digit of the solution is never cleared: whatever
\* the interleaving of number inputs and pending error timeouts, no step within
\* a game empties a cell whose digit is right.
CorrectDigitNeverCleared ==
    [][\A r \in 0..8, c \in 0..8 :
           (mode' = mode /\ board[r][c] = solution[r][c]) => board'[r][c] # Null]_vars

\* C27: the cells generateBoard revealed keep their given digit after any
\* sequence of cell clicks, number inputs and error timeouts.
GivenDigitsKept ==
    \A r \in 0..8, c \in 0..8 : given[r][c] # Null => board[r][c] = given[r][c]

\* C28: once the board equals the solution and onComplete has been called, no
\* saved game is stored under the current storage key.
SavedGameStaysRemoved ==
    (completes > 0 /\ BoardComplete(board, solution)) => storage[mode] = <<>>

-----------------------------------------------------------------------------
(* The CrosswordGame component: the mount effect with initGame, the         *)
(* persistence effect, toggleMode, the clicks on cells and clues, and       *)
(* handleKeyDown with moveCursor and checkWin. While isLoadingPuzzle is set *)
(* the component renders the loader only, so no handler runs between the    *)
(* start of initGame and its end.                                           *)

GRID_SIZE == 12         \* const GRID_SIZE = 12
MaxCwWords == 2         \* longest word list of a response
MaxCwKeys == 2          \* key presses handled
MaxCwToggles == 2       \* toggleMode calls

\* the answers of the responses: short words, which the layout keeps inside the grid
CwAnswers == {<<"A">>, <<"A", "B">>, <<"B", "A", "B">>}

\* the word lists a response can hold
CwWordLists ==
    {[i \in 1..Len(as) |-> [answer |-> as[i], clue |-> i]] : as \in SeqsUpTo(CwAnswers, MaxCwWords)}

\* what generateCrosswordPuzzle resolves to: <<>> for null (the request or the
\* parse failed), else <<finalClues>>
CwPuzzles ==
    {<<>>} \cup {<<AssignNumbers(generateGridLayout(words, gridSize).placedWords)>> :
                    words \in CwWordLists}

\* the keys handleKeyDown tells apart
CwKeyNames ==
    {"Backspace", "ArrowRight", "ArrowLeft", "ArrowDown", "ArrowUp", "Tab", "a", "B"}

CwCells == (0..(GRID_SIZE - 1)) \X (0..(GRID_SIZE - 1))

\* Array(GRID_SIZE).fill(null).map(() => Array(GRID_SIZE).fill('#'))
BlackGrid == [cell \in CwCells |-> "#"]

\* Array(GRID_SIZE).fill(null).map(() => Array(GRID_SIZE).fill(''))
EmptyUserGrid == [cell \in CwCells |-> ""]

\* the cells of a clue's answer
ClueCells(clue) ==
    {CellAt(clue.row, clue.col, clue.direction, i) : i \in 0..(Len(clue.answer) - 1)}

\* newGrid after newClues.forEach: the cells of the clues are ''
NewGrid(newClues) ==
    [cell \in CwCells |->
        IF \E x \in DOMAIN newClues :
               /\ cell \in ClueCells(newClues[x])
               /\ cell[1] < GRID_SIZE
               /\ cell[2] < GRID_SIZE
        THEN "" ELSE "#"]

\* the persistence effect: the game is saved under the key of the mode once
\* there are clues
CwPersistEffect(store, key, g, cl, ug) ==
    IF Len(cl) > 0
    THEN [store EXCEPT ![key] = <<[grid |-> g, clues |-> cl, userGrid |-> ug]>>]
    ELSE store

\* the effect on [mode] and the persistence effect that follows it: the saved
\* game of the key is restored, else initGame builds the grids of a new
\* puzzle. selectedCell and direction are not set by either
MountEffect(key) ==
    /\ IF cwStorage[key] # <<>>
       THEN \E saved \in {cwStorage[key][1]} :
                /\ cwGrid' = saved.grid
                /\ cwClues' = saved.clues
                /\ cwUserGrid' = saved.userGrid
                /\ cwStorage' = CwPersistEffect(cwStorage, key, saved.grid, saved.clues,
                                                saved.userGrid)
       ELSE \E newClues \in CwPuzzles :
                IF newClues # <<>>
                THEN /\ cwClues' = newClues[1]
                     /\ cwGrid' = NewGrid(newClues[1])
                     /\ cwUserGrid' = EmptyUserGrid
                     /\ cwStorage' = CwPersistEffect([cwStorage EXCEPT ![key] = <<>>], key,
                                                     cwGrid', cwClues', cwUserGrid')
                ELSE UNCHANGED <<cwClues, cwGrid, cwUserGrid, cwStorage>>
    /\ isLoadingPuzzle' = FALSE

\* the component as it is constructed, before its effects have run
InitCrosswordGame ==
    /\ cwGrid = BlackGrid
    /\ cwUserGrid = EmptyUserGrid
    /\ cwSelectedCell = <<>>
    /\ cwDirection = "across"
    /\ cwClues = <<>>
    /\ cwMode = "daily"
    /\ isLoadingPuzzle = TRUE
    /\ cwStorage = [m \in Modes |-> <<>>]
    /\ cwKeys = 0
    /\ cwToggles = 0
    /\ InitRNGIdle
    /\ InitSudokuIdle
    /\ InitLayoutIdle
    /\ InitNotCwIdle

\* the effects of the first render
CwMount ==
    /\ isLoadingPuzzle
    /\ MountEffect(cwMode)
    /\ UNCHANGED <<cwSelectedCell, cwDirection, cwMode, cwKeys, cwToggles,
                   rngVars, sudokuVars, layoutVars, notCwVars>>

\* toggleMode and the effects of the render with the new mode
CwToggleMode ==
    /\ ~isLoadingPuzzle
    /\ cwToggles < MaxCwToggles
    /\ \E newMode \in Modes \ {cwMode} :
           /\ cwMode' = newMode
           /\ MountEffect(newMode)
    /\ cwToggles' = cwToggles + 1
    /\ UNCHANGED <<cwSelectedCell, cwDirection, cwKeys,
                   rngVars, sudokuVars, layoutVars, notCwVars>>

\* handleCellClick(r, c) on a cell that is not '#'
CwHandleCellClick(cell) ==
    /\ ~isLoadingPuzzle
    /\ cwGrid[cell] # "#"
    /\ IF cwSelectedCell = cell
       THEN /\ cwDirection' = (IF cwDirection = "across" THEN "down" ELSE "across")
            /\ UNCHANGED cwSelectedCell
       ELSE /\ cwSelectedCell' = cell
            /\ UNCHANGED cwDirection
    /\ UNCHANGED <<cwGrid, cwUserGrid, cwClues, cwMode, isLoadingPuzzle, cwStorage, cwKeys,
                   cwToggles, rngVars, sudokuVars, layoutVars, notCwVars>>

\* the onClick of an entry of the clue lists
CwClueClick(clue) ==
    /\ ~isLoadingPuzzle
    /\ cwSelectedCell' = <<clue.row, clue.col>>
    /\ cwDirection' = clue.direction
    /\ UNCHANGED <<cwGrid, cwUserGrid, cwClues, cwMode, isLoadingPuzzle, cwStorage, cwKeys,
                   cwToggles, rngVars, sudokuVars, layoutVars, notCwVars>>

\* moveCursor(step): the selected cell after it. The loop walks from the
\* selected cell along direction and leaves at the edge of the grid, which it
\* reaches before GRID_SIZE * GRID_SIZE iterations
moveCursor(g, sel, dir, step) ==
    LET at(k) == IF dir = "across" THEN <<sel[1], sel[2] + k * step>>
                 ELSE <<sel[1] + k * step, sel[2]>>
        hits == {k \in 1..GRID_SIZE : at(k) \in CwCells /\ g[at(k)] # "#"}
    IN  IF hits = {} THEN sel
        ELSE at(CHOOSE k \in hits : \A other \in hits : k <= other)

\* checkWin(currentGrid) of the render's clues
IsWin(cl, currentGrid) ==
    \A x \in DOMAIN cl :
        \A i \in 0..(Len(cl[x].answer) - 1) :
            currentGrid[CellAt(cl[x].row, cl[x].col, cl[x].direction, i)] = cl[x].answer[i + 1]

\* localStorage after a key that replaced userGrid: checkWin removes the saved
\* game of a won puzzle, then the persistence effect of the next render runs
CwStorageAfterKey(newUserGrid, checked) ==
    CwPersistEffect(IF checked /\ IsWin(cwClues, newUserGrid)
                    THEN [cwStorage EXCEPT ![cwMode] = <<>>] ELSE cwStorage,
                    cwMode, cwGrid, cwClues, newUserGrid)

\* handleKeyDown(e) with a cell selected; moveCursor reads the direction of
\* the render the handler belongs to
CwHandleKeyDown(key) ==
    /\ ~isLoadingPuzzle
    /\ cwSelectedCell # <<>>
    /\ cwKeys < MaxCwKeys
    /\ cwKeys' = cwKeys + 1
    /\ CASE key = "Backspace" ->
                /\ cwUserGrid' = [cwUserGrid EXCEPT ![cwSelectedCell] = ""]
                /\ cwSelectedCell' = IF cwUserGrid[cwSelectedCell] = ""
                                     THEN moveCursor(cwGrid, cwSelectedCell, cwDirection, -1)
                                     ELSE cwSelectedCell
                /\ cwStorage' = CwStorageAfterKey(cwUserGrid', FALSE)
                /\ UNCHANGED cwDirection
         [] key \in {"ArrowRight", "ArrowLeft"} ->
                /\ cwDirection' = "across"
                /\ cwSelectedCell' = moveCursor(cwGrid, cwSelectedCell, cwDirection,
                                                IF key = "ArrowRight" THEN 1 ELSE -1)
                /\ UNCHANGED <<cwUserGrid, cwStorage>>
         [] key \in {"ArrowDown", "ArrowUp"} ->
                /\ cwDirection' = "down"
                /\ cwSelectedCell' = moveCursor(cwGrid, cwSelectedCell, cwDirection,
                                                IF key = "ArrowDown" THEN 1 ELSE -1)
                /\ UNCHANGED <<cwUserGrid, cwStorage>>
         [] key = "Tab" ->
                /\ cwDirection' = (IF cwDirection = "across" THEN "down" ELSE "across")
                /\ UNCHANGED <<cwSelectedCell, cwUserGrid, cwStorage>>
         [] OTHER ->
                /\ cwUserGrid' = [cwUserGrid EXCEPT ![cwSelectedCell] = UpperLetter(key)]
                /\ cwSelectedCell' = moveCursor(cwGrid, cwSelectedCell, cwDirection, 1)
                /\ cwStorage' = CwStorageAfterKey(cwUserGrid', TRUE)
                /\ UNCHANGED cwDirection
    /\ UNCHANGED <<cwGrid, cwClues, cwMode, isLoadingPuzzle, cwToggles,
                   rngVars, sudokuVars, layoutVars, notCwVars>>

NextCrosswordGame ==
    \/ CwMount
    \/ CwToggleMode
    \/ \E cell \in CwCells : CwHandleCellClick(cell)
    \/ \E x \in DOMAIN cwClues : CwClueClick(cwClues[x])
    \/ \E key \in CwKeyNames : CwHandleKeyDown(key)

SpecCrosswordGame == InitCrosswordGame /\ [][NextCrosswordGame]_vars

\* C29: the selected cell is never a '#' cell of the current grid, whatever the
\* cell clicks, clue clicks, key presses, mode toggles and puzzle loads before.
SelectedCellNeverBlack ==
    cwSelectedCell # <<>> => cwGrid[cwSelectedCell] # "#"

-----------------------------------------------------------------------------
(* callGemini: the chain of invocations one call makes. Each invocation     *)
(* sends one generateContent request; the catch block falls back to the     *)
(* flash model, waits and retries, or rethrows. apiRequests and apiWaits    *)
(* record what the chain did and are not state of the program.              *)

DefaultRetries == 2         \* retries = 2
DefaultDelay == 1000        \* delay = 1000

FlashModel == "gemini-3-flash-preview"

\* the models the callers put into config.model
ApiModels ==
    {FlashModel, "gemini-3-pro-image-preview", "gemini-2.5-flash-image",
     "gemini-2.5-flash-preview-tts"}

\* config.model.includes('pro')
IncludesPro(model) == model = "gemini-3-pro-image-preview"

\* the errors generateContent is rejected with: status and code are 0 where
\* the error has no such field, message is the words of error.message
ApiErrors ==
    {[status |-> 429, code |-> 0, message |-> <<"quota", "exceeded">>],
     [status |-> 503, code |-> 0, message |-> <<"UNAVAILABLE">>],
     [status |-> 0, code |-> 503, message |-> <<>>],
     [status |-> 0, code |-> 0, message |-> <<"got", "429">>],
     [status |-> 500, code |-> 0, message |-> <<"internal">>],
     [status |-> 0, code |-> 0, message |-> <<"fetch", "failed">>]}

\* the numbers of three digits that occur as words of the messages
StatusWords == [w \in {"429", "503", "500"} |-> CASE w = "429" -> 429 [] w = "503" -> 503 [] OTHER -> 500]

\* error.message?.includes(word)
MessageIncludes(error, word) == \E i \in DOMAIN error.message : error.message[i] = word

\* error.status || error.code || (error.message?.match(/\d{3}/)?.[0]), as the
\* number it is loosely equal to, 0 for undefined
ErrorStatus(error) ==
    IF error.status # 0 THEN error.status
    ELSE IF error.code # 0 THEN error.code
    ELSE LET hits == {i \in DOMAIN error.message : error.message[i] \in DOMAIN StatusWords}
         IN  IF hits = {} THEN 0
             ELSE StatusWords[error.message[CHOOSE i \in hits : \A j \in hits : i <= j]]

isQuotaError(error) ==
    \/ ErrorStatus(error) = 429
    \/ MessageIncludes(error, "429")
    \/ MessageIncludes(error, "quota")

isRetryable(error) ==
    \/ ErrorStatus(error) = 503
    \/ MessageIncludes(error, "503")
    \/ MessageIncludes(error, "UNAVAILABLE")

NoResult == [kind |-> "none", error |-> <<>>]

\* a retry that leaves the number of retries as it was
RetryArgsSameBudget(retries, delay) == [retries |-> retries, delay |-> delay * 2]

\* callGemini(config, retries - 1, delay * 2)
RetryArgs(retries, delay) == [retries |-> retries - 1, delay |-> delay * 2]

\* a caller has called callGemini(config) and its request is in flight
InitApi ==
    /\ apiModel \in ApiModels
    /\ apiRetries = DefaultRetries
    /\ apiDelay = DefaultDelay
    /\ apiPc = "request"
    /\ apiRequests = <<>>
    /\ apiWaits = <<>>
    /\ apiResult = NoResult
    /\ InitRNGIdle
    /\ InitSudokuIdle
    /\ InitLayoutIdle
    /\ InitNotApiIdle

\* generateContent resolves: the response is returned through the chain
RequestResolves ==
    /\ apiPc = "request"
    /\ apiRequests' = Append(apiRequests, [model |-> apiModel, ok |-> TRUE, error |-> <<>>])
    /\ apiPc' = "returned"
    /\ apiResult' = [kind |-> "response", error |-> <<>>]
    /\ UNCHANGED <<apiModel, apiRetries, apiDelay, apiWaits,
                   rngVars, sudokuVars, layoutVars, notApiVars>>

\* generateContent rejects with error: the catch block
RequestRejects(error) ==
    /\ apiPc = "request"
    /\ apiRequests' = Append(apiRequests, [model |-> apiModel, ok |-> FALSE, error |-> error])
    /\ IF /\ isQuotaError(error) \/ (isRetryable(error) /\ IncludesPro(apiModel))
          /\ apiModel # FlashModel
       THEN /\ apiModel' = FlashModel
            /\ UNCHANGED <<apiRetries, apiDelay, apiPc, apiWaits, apiResult>>
       ELSE IF apiRetries > 0 /\ (isRetryable(error) \/ isQuotaError(error))
       THEN /\ apiPc' = "wait"
            /\ UNCHANGED <<apiModel, apiRetries, apiDelay, apiWaits, apiResult>>
       ELSE /\ apiPc' = "thrown"
            /\ apiResult' = [kind |-> "error", error |-> error]
            /\ UNCHANGED <<apiModel, apiRetries, apiDelay, apiWaits>>
    /\ UNCHANGED <<rngVars, sudokuVars, layoutVars, notApiVars>>

\* await wait(delay) is over: the retry is made
WaitElapses ==
    /\ apiPc = "wait"
    /\ apiWaits' = Append(apiWaits, apiDelay)
    /\ \E args \in {RetryArgs(apiRetries, apiDelay)} :
           /\ apiRetries' = args.retries
           /\ apiDelay' = args.delay
    /\ apiPc' = "request"
    /\ UNCHANGED <<apiModel, apiRequests, apiResult,
                   rngVars, sudokuVars, layoutVars, notApiVars>>

NextApi ==
    \/ RequestResolves
    \/ \E error \in ApiErrors : RequestRejects(error)
    \/ WaitElapses

SpecApi == InitApi /\ [][NextApi]_vars

\* the service answers every request and the timer of wait fires
FairSpecApi == SpecApi /\ WF_vars(NextApi)

\* the number of requests that were followed by a request to another model
Fallbacks ==
    Cardinality({i \in 1..(Len(apiRequests) - 1) :
                    apiRequests[i].model # apiRequests[i + 1].model})

\* C30: callGemini terminates; it makes at most 4 requests: the model changes
\* at most once, to the flash model and without taking a retry, at most 2
\* retries follow after delays of 1000 and 2000; it ends returning the response
\* of its last request or throwing the error of its last request; an error
\* that is neither a quota error nor an unavailable error ends the call at once.
CallGeminiTerminates ==
    /\ <>(apiPc \in {"returned", "thrown"})
    /\ [](/\ Len(apiRequests) <= 4
          /\ Fallbacks <= 1
          /\ \A i \in 1..(Len(apiRequests) - 1) :
                 apiRequests[i].model # apiRequests[i + 1].model
                     => apiRequests[i + 1].model = FlashModel
          /\ apiRetries = DefaultRetries - Len(apiWaits)
          /\ apiRetries >= 0
          /\ \A i \in DOMAIN apiWaits : apiWaits[i] = DefaultDelay * (2 ^ (i - 1))
          /\ Len(apiRequests) <= 1 + Fallbacks + Len(apiWaits)
          /\ apiPc = "returned" =>
                 /\ apiRequests[Len(apiRequests)].ok
                 /\ apiResult.kind = "response"
          /\ apiPc = "thrown" =>
                 /\ ~apiRequests[Len(apiRequests)].ok
                 /\ apiResult = [kind |-> "error",
                                 error |-> apiRequests[Len(apiRequests)].error]
          /\ \A i \in DOMAIN apiRequests :
                 (/\ ~apiRequests[i].ok
                  /\ ~isQuotaError(apiRequests[i].error)
                  /\ ~isRetryable(apiRequests[i].error))
                     => (i = Len(apiRequests) /\ apiPc = "thrown"))

\* four requests were made: one to the caller's model, the fallback to the
\* flash model, and two retries after 1000 and 2000 ms, and the last error was thrown
FourRequestsThenThrown ==
    /\ apiPc = "thrown"
    /\ Len(apiRequests) = 4
    /\ Fallbacks = 1
    /\ apiWaits = <<1000, 2000>>

====
